---- MODULE Spec2Model ----
(***************************************************************************)
(* Model of tools/conversation.py: the EMC2 container codec, the Kyra      *)
(* decompiler (passes A-F) and the Kyra compiler (desugar, parser,         *)
(* lowerer).  Bytes are numbers 0..255, words are numbers 0..65535, a text *)
(* is a sequence of line records, a NUMBER token is its digit sequence.    *)
(***************************************************************************)
EXTENDS Integers, Sequences, FiniteSets, TLC

VARIABLES
    phase,      \* position of the pipeline
    input,      \* how the input was built
    buf,        \* the input container bytes
    form,       \* result of _parse_emc2(buf)
    text,       \* result of decompile(buf), or the hand-written source
    out_bytes,  \* result of compile(text) / _emit_emc2(form)
    text2,      \* result of decompile(out_bytes)
    annotations_evaluated  \* the interpreter evaluates annotations at definition time

vars == <<phase, input, buf, form, text, out_bytes, text2, annotations_evaluated>>

-----------------------------------------------------------------------------
(* Generic helpers *)

Min(a, b) == IF a < b THEN a ELSE b
Max(a, b) == IF a > b THEN a ELSE b

RECURSIVE Flatten(_)
Flatten(ss) == IF ss = <<>> THEN <<>> ELSE Head(ss) \o Flatten(Tail(ss))

\* Python slice s[a:b] for 0 <= a (0-based, end exclusive, clipped to len).
Slice(s, a, b) == SubSeq(s, a + 1, Min(b, Len(s)))

StartsWith(s, p) == Len(s) >= Len(p) /\ SubSeq(s, 1, Len(p)) = p

\* int.from_bytes(bs, 'big')
RECURSIVE FromBytesBE(_)
FromBytesBE(bs) == IF bs = <<>> THEN 0 ELSE FromBytesBE(SubSeq(bs, 1, Len(bs) - 1)) * 256 + bs[Len(bs)]

Fail(why) == [ok |-> FALSE, err |-> why]

\* \w of the regular expressions, on ASCII characters
IsWordChar(c) == c \in (48 .. 57) \cup (65 .. 90) \cup (97 .. 122) \cup {95}

\* A local variable: v is computed once and named by the parameter of Body.
With(v, Body(_)) == Body(v)

-----------------------------------------------------------------------------
(* Chunk tags *)

TagFORM == <<70, 79, 82, 77>>
TagEMC2 == <<69, 77, 67, 50>>
TagORDR == <<79, 82, 68, 82>>
TagTEXT == <<84, 69, 88, 84>>
TagDATA == <<68, 65, 84, 65>>

-----------------------------------------------------------------------------
(* Integer codecs *)

_u16_ok(x) == 0 <= x /\ x <= 65535

_read_u32be(data, offset) == FromBytesBE(Slice(data, offset, offset + 4))

_write_u32be(x) == <<(x \div 16777216) % 256, (x \div 65536) % 256, (x \div 256) % 256, x % 256>>

_write_u16be(x) == <<(x \div 256) % 256, x % 256>>

\* [int.from_bytes(block[j:j+2], 'big') for j in range(0, len(block), 2)]
RECURSIVE WordsOf(_)
WordsOf(block) == IF block = <<>> THEN <<>> ELSE <<FromBytesBE(Slice(block, 0, 2))>> \o WordsOf(Slice(block, 2, Len(block)))

RECURSIVE BytesOfWords(_)
BytesOfWords(ws) == IF ws = <<>> THEN <<>> ELSE _write_u16be(Head(ws)) \o BytesOfWords(Tail(ws))

-----------------------------------------------------------------------------
(* TEXT chunk codec.  A string is the sequence of its character codes. *)

\* The offset-table loop: reads u16 offsets until the cursor reaches offsets[0].
RECURSIVE TextOffsets(_, _, _)
TextOffsets(data, i, offsets) ==
    IF i >= Len(data) THEN [ok |-> TRUE, offsets |-> offsets]
    ELSE IF i + 2 > Len(data) THEN Fail("TEXT offset table truncated.")
    ELSE LET offs == Append(offsets, FromBytesBE(Slice(data, i, i + 2)))
         IN  IF offs[1] <= i + 2
             THEN (IF offs[1] # i + 2
                   THEN Fail("TEXT offset table malformed (first offset mismatch).")
                   ELSE [ok |-> TRUE, offsets |-> offs])
             ELSE TextOffsets(data, i + 2, offs)

IsSorted(s) == \A j \in 1..(Len(s) - 1) : s[j] <= s[j + 1]

IsAscii(s) == \A j \in 1..Len(s) : s[j] < 128

RECURSIVE TextStrings(_, _, _)
TextStrings(data, offsets, j) ==
    IF j > Len(offsets) - 1 THEN [ok |-> TRUE, strings |-> <<>>]
    ELSE LET s_bytes == Slice(data, offsets[j], offsets[j + 1])
         IN  IF ~IsAscii(s_bytes) THEN Fail("TEXT contains non-ascii bytes.")
             ELSE IF s_bytes = <<>> \/ s_bytes[Len(s_bytes)] # 0
                  THEN Fail("TEXT string is not NUL-terminated.")
             ELSE LET rest == TextStrings(data, offsets, j + 1)
                  IN  IF ~rest.ok THEN rest
                      ELSE [ok |-> TRUE,
                            strings |-> <<SubSeq(s_bytes, 1, Len(s_bytes) - 1)>> \o rest.strings]

_decode_text_block(data) ==
    LET t == TextOffsets(data, 0, <<>>)
    IN  IF ~t.ok THEN t
        ELSE LET offsets == Append(t.offsets, Len(data))
             IN  IF ~IsSorted(offsets) THEN Fail("TEXT offsets not sorted.")
                 ELSE TextStrings(data, offsets, 1)

HasNul(s) == \E j \in 1..Len(s) : s[j] = 0

RECURSIVE TextCursor(_, _)
TextCursor(strings, n) == IF n = 0 THEN 2 * Len(strings) ELSE TextCursor(strings, n - 1) + Len(strings[n]) + 1

_encode_text_block(strings) ==
    IF \E j \in 1..Len(strings) : HasNul(strings[j]) THEN Fail("TEXT strings must not contain NUL.")
    ELSE IF \E j \in 1..Len(strings) : ~IsAscii(strings[j]) THEN Fail("TEXT strings must be ASCII.")
    ELSE IF \E j \in 1..Len(strings) : ~_u16_ok(TextCursor(strings, j - 1)) THEN Fail("Value out of u16 range.")
    ELSE [ok |-> TRUE,
          bytes |-> Flatten([j \in 1..Len(strings) |-> _write_u16be(TextCursor(strings, j - 1))])
                    \o Flatten([j \in 1..Len(strings) |-> Append(strings[j], 0)])]

-----------------------------------------------------------------------------
(* FORM/EMC2 container codec *)

\* the pad check skipped: any byte, or none, passes for the pad
PadNeverMissing(payload, k) == FALSE

\* no 0x00 byte at offset k, where the pad of an odd-sized chunk belongs
PadMissing(payload, k) == k >= Len(payload) \/ payload[k + 1] # 0

\* The chunk loop of _parse_emc2: blocks is [ORDR, TEXT, DATA], each <<>> (None)
\* or <<chunk>>; a later chunk of the same name replaces an earlier one.
RECURSIVE ParseChunks(_, _, _)
ParseChunks(payload, i, blocks) ==
    IF i >= Len(payload) THEN [ok |-> TRUE, blocks |-> blocks]
    ELSE IF i + 8 > Len(payload) THEN Fail("Truncated chunk header.")
    ELSE LET name == Slice(payload, i, i + 4)
             size == _read_u32be(payload, i + 4)
             j    == i + 8
         IN  IF j + size > Len(payload) THEN Fail("Truncated chunk.")
             ELSE LET chunk == Slice(payload, j, j + size)
                      k     == j + size
                      odd   == size % 2 = 1
                  IN  IF odd /\ PadMissing(payload, k)
                      THEN Fail("Missing pad byte after odd-sized chunk.")
                      ELSE ParseChunks(payload, IF odd THEN k + 1 ELSE k,
                               IF name = TagORDR THEN [blocks EXCEPT !.order = <<chunk>>]
                               ELSE IF name = TagTEXT THEN [blocks EXCEPT !.text = <<chunk>>]
                               ELSE IF name = TagDATA THEN [blocks EXCEPT !.data = <<chunk>>]
                               ELSE blocks)

_parse_emc2(data) ==
    IF ~StartsWith(data, TagFORM) THEN Fail("Not an EMC2 FORM file (missing FORM header).")
    ELSE IF _read_u32be(data, 4) # Len(data) THEN Fail("FORM length mismatch.")
    ELSE IF ~StartsWith(Slice(data, 8, Len(data)), TagEMC2) THEN Fail("Not an EMC2 FORM file (missing EMC2 tag).")
    ELSE With(ParseChunks(Slice(data, 12, Len(data)), 0, [order |-> <<>>, text |-> <<>>, data |-> <<>>]), LAMBDA c :
             IF ~c.ok THEN c
             ELSE IF c.blocks.order = <<>> \/ c.blocks.data = <<>> THEN Fail("Missing required ORDR or DATA chunk.")
             ELSE IF Len(c.blocks.order[1]) % 2 # 0 THEN Fail("ORDR size is not a multiple of 2.")
             ELSE With(IF c.blocks.text = <<>> THEN [ok |-> TRUE, strings |-> <<>>]
                       ELSE _decode_text_block(c.blocks.text[1]), LAMBDA t :
                      IF ~t.ok THEN t
                      ELSE IF Len(c.blocks.data[1]) % 2 # 0 THEN Fail("DATA size is not a multiple of 2.")
                      ELSE [ok |-> TRUE,
                            order |-> WordsOf(c.blocks.order[1]),
                            strings |-> t.strings,
                            data |-> WordsOf(c.blocks.data[1]),
                            text_present |-> c.blocks.text # <<>>]))

\* the chunk without the pad byte
_emit_chunk_unpadded(name, data) == name \o _write_u32be(Len(data)) \o data

_emit_chunk(name, data) ==
    name \o _write_u32be(Len(data)) \o data \o (IF Len(data) % 2 = 1 THEN <<0>> ELSE <<>>)

_emit_emc2(f) ==
    IF \E j \in 1..Len(f.order) : ~_u16_ok(f.order[j]) THEN Fail("Value out of u16 range.")
    ELSE LET t == IF f.text_present THEN _encode_text_block(f.strings) ELSE [ok |-> TRUE, bytes |-> <<>>]
         IN  IF ~t.ok THEN t
             ELSE IF \E j \in 1..Len(f.data) : ~_u16_ok(f.data[j]) THEN Fail("Value out of u16 range.")
             ELSE LET payload == TagEMC2
                                 \o _emit_chunk(TagORDR, BytesOfWords(f.order))
                                 \o (IF f.text_present THEN _emit_chunk(TagTEXT, t.bytes) ELSE <<>>)
                                 \o _emit_chunk(TagDATA, BytesOfWords(f.data))
                  IN  [ok |-> TRUE, bytes |-> TagFORM \o _write_u32be(8 + Len(payload)) \o payload]

-----------------------------------------------------------------------------
(* Word codec *)

_decode_word(word) ==
    IF word >= 32768
    THEN [flags |-> 4, instr |-> 0, arg |-> word % 32768, long |-> TRUE]
    ELSE [flags |-> (word \div 8192) % 8, instr |-> (word \div 256) % 32, arg |-> word % 256, long |-> FALSE]

\* The word at 0-based index pc.
At(data, pc) == data[pc + 1]

_is_push16_at(data, pc) ==
    /\ pc + 1 < Len(data)
    /\ LET w == _decode_word(At(data, pc)) IN ~w.long /\ w.instr = 3 /\ w.flags = 1

_push16_imm_at(data, pc) == At(data, pc + 1)

\* no word takes an operand
IsCondMarkerNever(data, pc) == FALSE

\* opcode 15 with flags 1: the two-word conditional marker
IsCondMarker(data, pc) ==
    LET w == _decode_word(At(data, pc)) IN w.instr = 15 /\ w.flags = 1 /\ pc + 1 < Len(data)

IsLongJmp(w) == w.long /\ w.instr = 0

-----------------------------------------------------------------------------
(* Pass A: executed-PC discovery *)

RECURSIVE PassA(_, _, _)
PassA(data, pc, acc) ==
    IF pc >= Len(data) THEN acc
    ELSE LET acc1 == [acc EXCEPT !.executed_pcs = @ \cup {pc}]
         IN  IF _is_push16_at(data, pc) THEN PassA(data, pc + 2, acc1)
             ELSE IF IsCondMarker(data, pc)
                  THEN LET op == _decode_word(At(data, pc + 1))
                       IN  PassA(data, pc + 2,
                               [acc1 EXCEPT !.ifnot_operand_pcs = @ \cup {pc + 1},
                                            !.embedded_jmp_targets =
                                                IF op.long \/ op.instr = 0 THEN @ \cup {op.arg} ELSE @])
                  ELSE PassA(data, pc + 1, acc1)

ExecutedPcs(data) ==
    PassA(data, 0, [executed_pcs |-> {}, ifnot_operand_pcs |-> {}, embedded_jmp_targets |-> {}])

\* prev_executed: the last executed PC in [lower_bound, before_pc), or -1 (None)
prev_executed(executed_pcs, before_pc, lower_bound) ==
    LET c == {p \in executed_pcs : lower_bound <= p /\ p < before_pc}
    IN  IF c = {} THEN -1 ELSE CHOOSE p \in c : \A q \in c : q <= p

-----------------------------------------------------------------------------
(* Pass C: structured conditionals and hidden join-jumps *)

\* The recognition shared by compute_hidden_pcs and emit_range: the marker at pc
\* with a forward long-jump operand into (pc, end_pc).  join = -1 means `if` only.
StructCond(a, pc, end_pc) ==
    LET op == _decode_word(At(a.data, pc + 1))
        else_start == op.arg
        then_start == pc + 2
        last_then_pc == prev_executed(a.executed_pcs, else_start, then_start)
        last == IF last_then_pc = -1 THEN [long |-> FALSE, instr |-> 0, arg |-> 0, flags |-> 0]
                ELSE _decode_word(At(a.data, last_then_pc))
        is_join == /\ last_then_pc # -1
                   /\ IsLongJmp(last)
                   /\ last.arg \in a.valid_jump_targets
                   /\ last.arg > else_start
                   /\ last.arg <= end_pc
    IN  [ok |-> IsLongJmp(op) /\ op.arg \in a.valid_jump_targets /\ op.arg > pc /\ op.arg < end_pc,
         else_start |-> else_start,
         then_start |-> then_start,
         last_then_pc |-> last_then_pc,
         join_target |-> IF is_join THEN last.arg ELSE -1]

IsCondAt(a, pc) == IsCondMarker(a.data, pc) /\ (pc + 1) \in a.ifnot_operand_pcs

HUnion(x, y) == [hidden |-> x.hidden \cup y.hidden, starts |-> x.starts \cup y.starts]

RECURSIVE compute_hidden_pcs(_, _, _)
compute_hidden_pcs(a, pc, end_pc) ==
    IF pc >= end_pc THEN [hidden |-> {}, starts |-> {}]
    ELSE IF _is_push16_at(a.data, pc) THEN compute_hidden_pcs(a, pc + 2, end_pc)
    ELSE IF IsCondAt(a, pc)
         THEN With(StructCond(a, pc, end_pc), LAMBDA c :
                  IF ~c.ok THEN compute_hidden_pcs(a, pc + 2, end_pc)
                  ELSE IF c.join_target # -1
                       THEN HUnion([hidden |-> {c.last_then_pc}, starts |-> {pc}],
                            HUnion(compute_hidden_pcs(a, c.then_start, c.last_then_pc),
                            HUnion(compute_hidden_pcs(a, c.else_start, c.join_target),
                                   compute_hidden_pcs(a, c.join_target, end_pc))))
                       ELSE HUnion([hidden |-> {}, starts |-> {pc}],
                            HUnion(compute_hidden_pcs(a, c.then_start, c.else_start),
                                   compute_hidden_pcs(a, c.else_start, end_pc))))
         ELSE compute_hidden_pcs(a, pc + 1, end_pc)

-----------------------------------------------------------------------------
(* Numbers and names as printed *)

RECURSIVE Digits(_, _, _)
\* x in the given base with at least w digits (f'{x:0wx}', f'{x}')
Digits(x, base, w) == IF x < base /\ w <= 1 THEN <<x>> ELSE Append(Digits(x \div base, base, w - 1), x % base)

RECURSIVE FromDigits(_, _)
FromDigits(ds, base) == IF ds = <<>> THEN 0 ELSE FromDigits(SubSeq(ds, 1, Len(ds) - 1), base) * base + ds[Len(ds)]

\* NUMBER tokens: '0x..' (hexadecimal) and plain decimal; int(tok, 0) reads them.
Hex(x, w) == <<"0x", Digits(x, 16, w)>>
Dec(x) == <<"dec", Digits(x, 10, 1)>>
IsNum(t) == t[1] \in {"0x", "dec"}
NumVal(t) == IF t[1] = "0x" THEN FromDigits(t[2], 16) ELSE FromDigits(t[2], 10)

\* IDENT tokens: f'{prefix}_{n}' is <<prefix, decimal digits of n>>; an alias is <<alias, <<>>>>.
Name(prefix, n) == <<prefix, Digits(n, 10, 1)>>
Ident(name) == <<"id", name>>
IsIdent(t) == t[1] = "id"

_native_call_symbol(call_id) ==
    IF call_id = 1 THEN <<"speak", <<>>>>
    ELSE IF call_id = 52 THEN <<"tell", <<>>>>
    ELSE IF call_id = 139 THEN <<"title", <<>>>>
    ELSE Name("call", call_id)

\* _INSTR_ID_TO_NAME.get(instr, f'instr_{instr}')
InstrName(instr) ==
    IF instr = 0 THEN <<"jmp", <<>>>>
    ELSE IF instr = 4 THEN <<"push", <<>>>>
    ELSE IF instr = 14 THEN <<"call", <<>>>>
    ELSE IF instr = 16 THEN <<"unary", <<>>>>
    ELSE IF instr = 17 THEN <<"binary", <<>>>>
    ELSE Name("instr", instr)

-----------------------------------------------------------------------------
(* Pass B: labels *)

\* ORDR entries (0-based indices) whose offset is pc
GlobalsAt(order, pc) == {i \in 0 .. Len(order) - 1 : order[i + 1] = pc}

GlobalPcs(order) == {order[i] : i \in 1 .. Len(order)}

\* jump_labels: targets of executed jmp words and of embedded operand jumps
\* that are valid and carry no global label
JumpLabelPcs(data, order, pa, valid) ==
    LET direct == {_decode_word(At(data, pc)).arg : pc \in {q \in pa.executed_pcs : _decode_word(At(data, q)).instr = 0}}
    IN  {t \in direct \cup pa.embedded_jmp_targets : t \in valid /\ t \notin GlobalPcs(order)}

\* stackctl prologue (2,2,1) followed by a long jump to a valid target
FuncEntryPcs(data, valid) ==
    {_decode_word(At(data, pc + 1)).arg : pc \in
        {q \in 0 .. Len(data) - 2 :
            LET w0 == _decode_word(At(data, q))
                w1 == _decode_word(At(data, q + 1))
            IN  /\ ~w0.long /\ w0.flags = 2 /\ w0.instr = 2 /\ w0.arg = 1
                /\ w1.instr = 0 /\ w1.flags = 4
                /\ w1.arg \in valid}}

\* All that decompile computes before it prints instructions.
Analyze(f, call_sugar, eager_annotations) ==
    With(ExecutedPcs(f.data), LAMBDA pa :
    With(pa.executed_pcs \cup {Len(f.data)}, LAMBDA valid :
    With(compute_hidden_pcs([data |-> f.data, executed_pcs |-> pa.executed_pcs,
                             ifnot_operand_pcs |-> pa.ifnot_operand_pcs,
                             valid_jump_targets |-> valid], 0, Len(f.data)), LAMBDA h :
        [data |-> f.data, order |-> f.order, strings |-> f.strings, call_sugar |-> call_sugar,
         eager_annotations |-> eager_annotations,
         executed_pcs |-> pa.executed_pcs,
         ifnot_operand_pcs |-> pa.ifnot_operand_pcs,
         embedded_jmp_targets |-> pa.embedded_jmp_targets,
         valid_jump_targets |-> valid,
         hidden_pcs |-> h.hidden,
         structured_conditional_starts |-> h.starts,
         jump_labels |-> JumpLabelPcs(f.data, f.order, pa, valid),
         func_entry_pcs |-> FuncEntryPcs(f.data, valid)])))

\* 'global_3' < 'global_30' < 'global_4': string order of the decimal suffixes
RECURSIVE StrLess(_, _)
StrLess(x, y) ==
    IF x = <<>> THEN y # <<>>
    ELSE IF y = <<>> THEN FALSE
    ELSE IF Head(x) # Head(y) THEN Head(x) < Head(y)
    ELSE StrLess(Tail(x), Tail(y))

RECURSIVE SortedGlobals(_)
SortedGlobals(is) ==
    IF is = {} THEN <<>>
    ELSE LET m == CHOOSE i \in is : \A j \in is \ {i} : StrLess(Digits(i, 10, 1), Digits(j, 10, 1))
         IN  <<Name("global", m)>> \o SortedGlobals(is \ {m})

\* labels_at[pc], in the order emit_labels prints them
labels_at(a, pc) ==
    SortedGlobals(GlobalsAt(a.order, pc))
        \o (IF pc \in a.func_entry_pcs THEN <<Name("func", pc)>>
            ELSE IF pc \in a.jump_labels THEN <<Name("label", pc)>>
            ELSE <<>>)

NoLabel == <<>>

\* preferred_label_at.get(pc)
preferred_label_at(a, pc) ==
    LET g == GlobalsAt(a.order, pc)
    IN  IF g # {} THEN Name("global", CHOOSE i \in g : \A j \in g : i <= j)
        ELSE IF pc \in a.func_entry_pcs THEN Name("func", pc)
        ELSE IF pc \in a.jump_labels THEN Name("label", pc)
        ELSE NoLabel

IsSynthetic(name) == name # NoLabel /\ name[1] = "label"

would_render_jump_target_as_label(a, arg) ==
    /\ preferred_label_at(a, arg) # NoLabel
    /\ arg \in a.valid_jump_targets
    /\ ~(arg \in a.hidden_pcs /\ IsSynthetic(preferred_label_at(a, arg)))

rendered_label_jump_targets(a) ==
    {_decode_word(At(a.data, pc)).arg : pc \in
        {q \in a.executed_pcs \ a.ifnot_operand_pcs :
            LET w == _decode_word(At(a.data, q))
            IN  w.instr = 0 /\ would_render_jump_target_as_label(a, w.arg)}}
    \cup
    {_decode_word(At(a.data, pc + 1)).arg : pc \in
        {q \in a.executed_pcs :
            /\ IsCondAt(a, q)
            /\ q \notin a.structured_conditional_starts
            /\ LET op == _decode_word(At(a.data, q + 1))
               IN  (op.long \/ op.instr = 0) /\ would_render_jump_target_as_label(a, op.arg)}}

-----------------------------------------------------------------------------
(* Text lines.  A line is [ind, k, v]: indent (tabs), kind, and the tokens
   of the line.  The text is the sequence of lines. *)

Line(indent, k, v) == [ind |-> indent, k |-> k, v |-> v]
Blank == Line(0, "blank", <<>>)

HexChar(d) == IF d < 10 THEN 48 + d ELSE 87 + d

\* no escaping at all
_quote_string_plain(s) == s

\* _quote_string without the enclosing quotes: the characters between them
RECURSIVE _quote_string(_)
_quote_string(s) ==
    IF s = <<>> THEN <<>>
    ELSE LET code == Head(s)
             q == IF code = 92 THEN <<92, 92>>
                  ELSE IF code = 39 THEN <<92, 39>>
                  ELSE IF code = 10 THEN <<92, 110>>
                  ELSE IF code = 13 THEN <<92, 114>>
                  ELSE IF code = 9 THEN <<92, 116>>
                  ELSE IF 32 <= code /\ code <= 126 THEN <<code>>
                  ELSE <<92, 120, HexChar(code \div 16), HexChar(code % 16)>>
         IN  q \o _quote_string(Tail(s))

\* default keys f's{i:03d}'
TextKey(i) == <<"s", Digits(i, 10, 3)>>

\* a key 's_' + chars: the characters after the prefix
SlugKey(chars) == <<"s_", chars>>

\* a flags-2 push of opcode 3 or 4 that is not a push16 prefix
is_i8_push_at(data, p) ==
    /\ p >= 0 /\ p < Len(data)
    /\ ~_is_push16_at(data, p)
    /\ LET w == _decode_word(At(data, p)) IN ~w.long /\ w.flags = 2 /\ w.instr \in {3, 4}

\* the PCs of call(2, call_target) followed by instr_12(2, nargs), operand PCs skipped
CallSites(a, call_target, nargs) ==
    {pc \in 0 .. Len(a.data) - 2 :
        /\ pc \notin a.ifnot_operand_pcs
        /\ LET w0 == _decode_word(At(a.data, pc))
               w1 == _decode_word(At(a.data, pc + 1))
           IN  /\ ~w0.long /\ w0.instr = 14 /\ w0.flags = 2 /\ w0.arg = call_target
               /\ ~w1.long /\ w1.instr = 12 /\ w1.flags = 2 /\ w1.arg = nargs}

\* the i8 index pushed just before pc, when it is an index of strings
PushedIndex(a, pc) ==
    IF is_i8_push_at(a.data, pc - 1) /\ _decode_word(At(a.data, pc - 1)).arg < Len(a.strings)
    THEN {_decode_word(At(a.data, pc - 1)).arg} ELSE {}

_collect_speech_text_indices(a) ==
    IF a.strings = <<>> THEN {}
    ELSE UNION {PushedIndex(a, pc) : pc \in CallSites(a, 1, 3) \cup CallSites(a, 52, 4)}

\* the push16 immediate at pc - 3, else at pc - 2; -1 is None
TitleBase(a, pc) ==
    IF pc - 3 >= 0 /\ _is_push16_at(a.data, pc - 3) THEN _push16_imm_at(a.data, pc - 3)
    ELSE IF pc - 2 >= 0 /\ _is_push16_at(a.data, pc - 2) THEN _push16_imm_at(a.data, pc - 2)
    ELSE -1

_collect_title_text_indices(a) ==
    IF a.strings = <<>> THEN {}
    ELSE UNION {PushedIndex(a, pc) : pc \in {q \in CallSites(a, 139, 2) : TitleBase(a, q) = 179 /\ q - 1 >= 0}}

\* str.isspace on ASCII characters
IsSpace(c) == c \in {9, 10, 11, 12, 13, 28, 29, 30, 31, 32}

RECURSIVE LStrip(_)
LStrip(s) == IF s # <<>> /\ IsSpace(Head(s)) THEN LStrip(Tail(s)) ELSE s

RECURSIVE RStrip(_)
RStrip(s) == IF s # <<>> /\ IsSpace(s[Len(s)]) THEN RStrip(SubSeq(s, 1, Len(s) - 1)) ELSE s

\* re.sub(r"(?<=\w)['](?=\w)", "", s), from position j on
RECURSIVE DropApostrophes(_, _)
DropApostrophes(s, j) ==
    IF j > Len(s) THEN <<>>
    ELSE (IF s[j] = 39 /\ j > 1 /\ j < Len(s) /\ IsWordChar(s[j - 1]) /\ IsWordChar(s[j + 1])
          THEN <<>> ELSE <<s[j]>>) \o DropApostrophes(s, j + 1)

Lower(c) == IF 65 <= c /\ c <= 90 THEN c + 32 ELSE c

IsAlnum(c) == c \in (48 .. 57) \cup (65 .. 90) \cup (97 .. 122)

\* re.findall(r'[A-Za-z0-9]+', s): the maximal alphanumeric runs; cur is the open run
RECURSIVE AlnumRuns(_, _)
AlnumRuns(s, cur) ==
    IF s = <<>> THEN (IF cur = <<>> THEN <<>> ELSE <<cur>>)
    ELSE IF IsAlnum(Head(s)) THEN AlnumRuns(Tail(s), Append(cur, Head(s)))
    ELSE (IF cur = <<>> THEN <<>> ELSE <<cur>>) \o AlnumRuns(Tail(s), <<>>)

\* the stop words of words_for_slug, as character codes: a, an, and, are, ..., lets
stop ==
    {<<97>>, <<97, 110>>, <<97, 110, 100>>, <<97, 114, 101>>, <<97, 115>>, <<97, 116>>,
     <<98, 101>>, <<98, 117, 116>>, <<98, 121>>, <<102, 111, 114>>, <<102, 114, 111, 109>>,
     <<104, 97, 115>>, <<104, 97, 118, 101>>, <<104, 101>>, <<104, 101, 114>>,
     <<104, 105, 115>>, <<105>>, <<105, 110>>, <<105, 115>>, <<105, 116>>, <<105, 116, 115>>,
     <<109, 101>>, <<109, 121>>, <<110, 111>>, <<110, 111, 116>>, <<111, 102>>, <<111, 110>>,
     <<111, 114>>, <<111, 117, 114>>, <<115, 104, 101>>, <<115, 111>>, <<116, 104, 97, 116>>,
     <<116, 104, 101>>, <<116, 104, 101, 105, 114>>, <<116, 104, 101, 110>>,
     <<116, 104, 101, 114, 101>>, <<116, 104, 101, 121>>, <<116, 104, 105, 115>>, <<116, 111>>,
     <<117, 112>>, <<119, 97, 115>>, <<119, 101>>, <<119, 101, 114, 101>>,
     <<119, 104, 97, 116>>, <<119, 104, 101, 110>>, <<119, 104, 101, 114, 101>>,
     <<119, 104, 111>>, <<119, 104, 121>>, <<119, 105, 108, 108>>, <<119, 105, 116, 104>>,
     <<121, 111, 117>>, <<121, 111, 117, 114>>, <<116, 104, 101, 114, 101, 115>>,
     <<116, 104, 97, 116, 115>>, <<119, 104, 97, 116, 115>>, <<104, 101, 114, 101, 115>>,
     <<119, 104, 101, 114, 101, 115>>, <<119, 104, 111, 115>>, <<104, 111, 119, 115>>,
     <<108, 101, 116, 115>>}
\* strings are ASCII, so NFKD and the ASCII fold change nothing
words_for_slug(s) ==
    LET merged == DropApostrophes(RStrip(LStrip(s)), 1)
        parts == AlnumRuns([j \in 1 .. Len(merged) |-> Lower(merged[j])], <<>>)
        good == SelectSeq(parts, LAMBDA p : p \notin stop /\ Len(p) > 1)
    IN  IF Len(good) >= 3 THEN good ELSE parts

\* '_'.join(ws)
RECURSIVE JoinWords(_)
JoinWords(ws) ==
    IF ws = <<>> THEN <<>>
    ELSE IF Len(ws) = 1 THEN ws[1]
    ELSE ws[1] \o <<95>> \o JoinWords(Tail(ws))

\* the characters of f'{k}'
DigitChars(k) == [j \in 1 .. Len(Digits(k, 10, 1)) |-> 48 + Digits(k, 10, 1)[j]]

\* while cand in used_names: cand = f'{base}_{k}'; k += 1
RECURSIVE NextFree(_, _, _)
NextFree(base, k, used_names) ==
    IF (base \o <<95>> \o DigitChars(k)) \in used_names THEN NextFree(base, k + 1, used_names)
    ELSE base \o <<95>> \o DigitChars(k)

UniqueName(base, used_names) == IF base \in used_names THEN NextFree(base, 2, used_names) ELSE base

\* for i in sorted(used_title): a default key becomes s_title, s_title_2, ...
\* st: the keys and the slugs in used_names (a default key never equals a slug)
RECURSIVE RenameTitles(_, _)
RenameTitles(todo, st) ==
    IF todo = {} THEN st
    ELSE LET i == CHOOSE x \in todo : \A y \in todo : x <= y
         IN  RenameTitles(todo \ {i},
                 IF st.keys[i] = TextKey(i) /\ i < 1000
                 THEN With(UniqueName(<<116, 105, 116, 108, 101>>, st.used_names), LAMBDA cand :
                          [keys |-> [st.keys EXCEPT ![i] = SlugKey(cand)],
                           used_names |-> st.used_names \cup {cand}])
                 ELSE st)

\* for i in sorted(used_speech): the key becomes the slug of up to four words
RECURSIVE RenameSpeech(_, _, _)
RenameSpeech(strings, todo, st) ==
    IF todo = {} THEN st
    ELSE LET i == CHOOSE x \in todo : \A y \in todo : x <= y
         IN  RenameSpeech(strings, todo \ {i},
                 With(words_for_slug(strings[i + 1]), LAMBDA w :
                     IF w = <<>> THEN st
                     ELSE With(UniqueName(JoinWords(SubSeq(w, 1, Min(4, Len(w)))), st.used_names), LAMBDA cand :
                              [keys |-> [st.keys EXCEPT ![i] = SlugKey(cand)],
                               used_names |-> st.used_names \cup {cand}])))

\* the key of every string, as a function of its 0-based index
_compute_text_keys(a) ==
    LET keys == [i \in 0 .. Len(a.strings) - 1 |-> TextKey(i)]
    IN  With(_collect_speech_text_indices(a), LAMBDA used_speech :
        With(_collect_title_text_indices(a), LAMBDA used_title :
            IF used_speech = {} /\ used_title = {} THEN keys
            ELSE RenameSpeech(a.strings, used_speech,
                     RenameTitles(used_title, [keys |-> keys, used_names |-> {}])).keys))

StringsHeader(a) ==
    IF a.strings = <<>> THEN <<Line(0, "strings_empty", <<>>)>>
    ELSE With(_compute_text_keys(a), LAMBDA text_keys :
         <<Line(0, "strings_open", <<>>)>>
         \o [i \in 1 .. Len(a.strings) |-> Line(1, "str", <<text_keys[i - 1], _quote_string(a.strings[i])>>)]
         \o <<Line(0, "strings_close", <<>>)>>)

GlobalsLine(a) == Line(0, "globals", [i \in 1 .. Len(a.order) |-> Name("global", i - 1)])

Header(a) == StringsHeader(a) \o <<Blank, GlobalsLine(a), Blank>>

emit_blank_line(st) ==
    IF st.lines # <<>> /\ st.lines[Len(st.lines)] # Blank
    THEN [st EXCEPT !.lines = Append(@, Blank)]
    ELSE st

emit(st, ln) ==
    LET s1 == IF ln.k \in {"else", "elif"} THEN emit_blank_line(st) ELSE st
    IN  [s1 EXCEPT !.lines = Append(@, ln)]

RECURSIVE EmitAll(_, _)
EmitAll(st, lns) == IF lns = <<>> THEN st ELSE EmitAll(emit(st, Head(lns)), Tail(lns))

LabelLine(indent, name) == Line(indent, "label", <<name>>)

emit_labels(a, st, indent, at_pc) ==
    LET pc_labels == labels_at(a, at_pc)
        s1 == IF indent = 0 /\ pc_labels # <<>> THEN emit_blank_line(st) ELSE st
        shown == SelectSeq(pc_labels, LAMBDA l : ~(at_pc \in st.sup /\ IsSynthetic(l)))
    IN  EmitAll(s1, [i \in 1 .. Len(shown) |-> LabelLine(indent, shown[i])])

\* f'{name}({flags}, {arg})'
InstrLine(indent, name, flags, arg) == Line(indent, "instr", <<name, Dec(flags), arg>>)

\* the argument of a printed jump: the preferred label, or the number
JumpArg(a, arg, width) ==
    IF would_render_jump_target_as_label(a, arg) THEN Ident(preferred_label_at(a, arg)) ELSE Hex(arg, width)

emit_instr(a, st, indent, at_pc) ==
    LET w == _decode_word(At(a.data, at_pc))
        name == InstrName(w.instr)
    IN  IF w.instr = 14 /\ ~w.long
        THEN emit(st, InstrLine(indent, name, w.flags, Ident(_native_call_symbol(w.arg))))
        ELSE IF w.instr = 0
             THEN emit(st, InstrLine(indent, name, w.flags,
                           JumpArg(a, w.arg, IF w.long /\ w.arg > 255 THEN 4 ELSE 2)))
             ELSE emit(st, InstrLine(indent, name, w.flags, Hex(w.arg, 2)))

-----------------------------------------------------------------------------
(* Sugar folding *)

\* result of a try_emit_* function: next = -1 is None
NoFold(st) == [next |-> -1, st |-> st]

HasLabels(a, pc) == labels_at(a, pc) # <<>>

_BIN_ID_TO_NAME ==
    <<"and", "or", "eq", "ne", "lt", "le", "gt", "ge", "add", "sub", "mul", "div",
      "shr", "shl", "band", "bor", "mod", "xor">>

_UN_ID_TO_NAME == <<"not", "neg", "bnot">>

\* value expressions (_E): tagged tuples <<kind, ...>>
Pop(stack) == SubSeq(stack, 1, Len(stack) - 1)
Top(stack) == stack[Len(stack)]

RECURSIVE parse_stack_exprs(_, _, _, _, _)
\* the final stack, or ok = FALSE (None)
parse_stack_exprs(a, seq_start, pc, seq_end, stack) ==
    IF pc >= seq_end THEN [ok |-> TRUE, stack |-> stack]
    ELSE IF pc \in a.ifnot_operand_pcs THEN [ok |-> FALSE]
    ELSE IF pc # seq_start /\ HasLabels(a, pc) THEN [ok |-> FALSE]
    ELSE IF _is_push16_at(a.data, pc)
    THEN parse_stack_exprs(a, seq_start, pc + 2, seq_end, Append(stack, <<"u16", _push16_imm_at(a.data, pc)>>))
    ELSE LET w == _decode_word(At(a.data, pc))
             push(e) == parse_stack_exprs(a, seq_start, pc + 1, seq_end, Append(stack, e))
         IN  IF w.long THEN [ok |-> FALSE]
             ELSE IF w.instr \in {3, 4} /\ w.flags = 2 THEN push(<<"i8", w.arg>>)
             ELSE IF w.instr = 5 /\ w.flags = 2 THEN push(<<"var", w.arg>>)
             ELSE IF w.instr = 6 /\ w.flags = 2 THEN push(<<"arg", w.arg>>)
             ELSE IF w.instr = 7 /\ w.flags = 2 THEN push(<<"local", w.arg>>)
             ELSE IF w.instr = 2 /\ w.flags = 2 /\ w.arg = 0 THEN push(<<"acc">>)
             ELSE IF w.instr = 16 /\ w.flags = 2
                  THEN IF stack = <<>> \/ w.arg >= Len(_UN_ID_TO_NAME) THEN [ok |-> FALSE]
                       ELSE parse_stack_exprs(a, seq_start, pc + 1, seq_end,
                                Append(Pop(stack), <<"un", _UN_ID_TO_NAME[w.arg + 1], Top(stack)>>))
             ELSE IF w.instr = 17 /\ w.flags = 2
                  THEN IF Len(stack) < 2 \/ w.arg >= Len(_BIN_ID_TO_NAME) THEN [ok |-> FALSE]
                       ELSE parse_stack_exprs(a, seq_start, pc + 1, seq_end,
                                Append(Pop(Pop(stack)), <<"bin", _BIN_ID_TO_NAME[w.arg + 1], Top(Pop(stack)), Top(stack)>>))
             ELSE [ok |-> FALSE]

StackExprs(a, seq_start, seq_end) == parse_stack_exprs(a, seq_start, seq_start, seq_end, <<>>)

\* printed value expressions: a NUMBER, an IDENT, or NAME(args) as <<"ex", NAME, args>>
Ex(nm, args) == <<"ex", <<nm, <<>>>>, args>>
IsEx(t) == t[1] = "ex"

RECURSIVE render_expr(_)
render_expr(e) ==
    IF e[1] = "i8" THEN Hex(e[2], 2)
    ELSE IF e[1] = "u16" THEN Ex("u16", <<Hex(e[2], 4)>>)
    ELSE IF e[1] \in {"var", "arg", "local"} THEN Ex(e[1], <<Hex(e[2], 2)>>)
    ELSE IF e[1] = "acc" THEN Ident(<<"acc", <<>>>>)
    ELSE IF e[1] = "un" THEN Ex(e[2], <<render_expr(e[3])>>)
    ELSE Ex(e[2], <<render_expr(e[3]), render_expr(e[4])>>)

RenderAll(exprs) == [i \in 1 .. Len(exprs) |-> render_expr(exprs[i])]

\* no key substitution: every argument prints as its value
render_call_args_plain(a, call_target, exprs) == RenderAll(exprs)

\* speak / tell: the last argument, when a byte that indexes TEXT, prints as its key
render_call_args(a, call_target, exprs) ==
    LET rendered == RenderAll(exprs)
    IN  IF /\ call_target \in {1, 52}
           /\ exprs # <<>>
           /\ Top(exprs)[1] = "i8"
           /\ Top(exprs)[2] < Len(a.strings)
        THEN [rendered EXCEPT ![Len(exprs)] = Ident(_compute_text_keys(a)[Top(exprs)[2]])]
        ELSE rendered

\* the comment `# acc = ...` on a `return acc` line; NoHint: no comment
NoHint == <<>>

\* NAME(args) statement; `return NAME(args)`; `return expr`; `leave N`
SugarLine(indent, name, args) == Line(indent, "sugar", <<name, args>>)
ReturnLine(indent, expr) == Line(indent, "return", <<expr, NoHint>>)
ReturnCallLine(indent, name, args) == ReturnLine(indent, <<"ex", name, args>>)
LeaveLine(indent, n) == Line(indent, "leave", <<Hex(n, 2)>>)

\* a word that is not a long jump and has the given flags and opcode
IsOp(a, pc, flags, instr) ==
    LET w == _decode_word(At(a.data, pc)) IN ~w.long /\ w.flags = flags /\ w.instr = instr

IsRet(a, pc) == IsOp(a, pc, 2, 8) /\ _decode_word(At(a.data, pc)).arg = 1

\* a following word that may be folded into the statement
Plain(a, pc) == pc \notin a.ifnot_operand_pcs /\ ~HasLabels(a, pc)

ArgOf(a, pc) == _decode_word(At(a.data, pc)).arg

RECURSIVE try_emit_call_sugar(_, _, _, _, _, _)
try_emit_call_sugar(a, st, indent, start_pc, call_pc, end_pc) ==
    IF call_pc >= end_pc - 1 THEN NoFold(st)
    ELSE IF call_pc \in a.ifnot_operand_pcs THEN NoFold(st)
    ELSE IF call_pc # start_pc /\ HasLabels(a, call_pc) THEN NoFold(st)
    ELSE With(StackExprs(a, start_pc, call_pc), LAMBDA exprs :
         LET cleanup_pc == call_pc + 1
         IN  IF /\ IsOp(a, call_pc, 2, 14)
                /\ cleanup_pc < end_pc
                /\ Plain(a, cleanup_pc)
                /\ IsOp(a, cleanup_pc, 2, 12)
                /\ exprs.ok
                /\ Len(exprs.stack) = ArgOf(a, cleanup_pc)
             THEN [next |-> cleanup_pc + 1,
                   st |-> emit(st, SugarLine(indent, _native_call_symbol(ArgOf(a, call_pc)),
                                             render_call_args(a, ArgOf(a, call_pc), exprs.stack)))]
             ELSE try_emit_call_sugar(a, st, indent, start_pc, call_pc + 1, end_pc))

\* the call at call_pc followed by `ret` (pattern B) or by cleanup and `ret` (pattern A)
ReturnCallShape(a, call_pc, end_pc) ==
    LET next_pc == call_pc + 1
        none == [ok |-> FALSE, nargs |-> 0, ret_pc |-> 0]
    IN  IF ~(IsOp(a, call_pc, 2, 14) /\ next_pc < end_pc /\ Plain(a, next_pc)) THEN none
        ELSE IF _decode_word(At(a.data, next_pc)).long THEN none
        ELSE IF IsRet(a, next_pc) THEN [ok |-> TRUE, nargs |-> 0, ret_pc |-> next_pc]
        ELSE IF IsOp(a, next_pc, 2, 12)
             THEN IF next_pc + 1 < end_pc /\ Plain(a, next_pc + 1) /\ IsRet(a, next_pc + 1)
                  THEN [ok |-> TRUE, nargs |-> ArgOf(a, next_pc), ret_pc |-> next_pc + 1]
                  ELSE none
        ELSE none

RECURSIVE try_emit_return_call_sugar(_, _, _, _, _, _)
try_emit_return_call_sugar(a, st, indent, start_pc, call_pc, end_pc) ==
    IF call_pc >= end_pc - 1 THEN NoFold(st)
    ELSE IF call_pc \in a.ifnot_operand_pcs THEN NoFold(st)
    ELSE IF call_pc # start_pc /\ HasLabels(a, call_pc) THEN NoFold(st)
    ELSE With(ReturnCallShape(a, call_pc, end_pc), LAMBDA sh :
         With(StackExprs(a, start_pc, call_pc), LAMBDA exprs :
             IF sh.ok /\ exprs.ok /\ Len(exprs.stack) = sh.nargs
             THEN [next |-> sh.ret_pc + 1,
                   st |-> emit(st, ReturnCallLine(indent, _native_call_symbol(ArgOf(a, call_pc)),
                                                  render_call_args(a, ArgOf(a, call_pc), exprs.stack)))]
             ELSE try_emit_return_call_sugar(a, st, indent, start_pc, call_pc + 1, end_pc)))

\* stackctl prologue at pro_pc, long jump to a valid entry, optional cleanup
FuncCallShape(a, pro_pc, end_pc) ==
    LET jpc == pro_pc + 1
        cleanup_pc == jpc + 1
        j == _decode_word(At(a.data, jpc))
        has_cleanup == cleanup_pc < end_pc /\ Plain(a, cleanup_pc) /\ IsOp(a, cleanup_pc, 2, 12)
    IN  IF /\ ~_is_push16_at(a.data, pro_pc)
           /\ IsOp(a, pro_pc, 2, 2) /\ ArgOf(a, pro_pc) = 1
           /\ jpc < end_pc /\ Plain(a, jpc)
           /\ j.long /\ j.instr = 0 /\ j.arg \in a.valid_jump_targets
        THEN [ok |-> TRUE, entry |-> j.arg,
              nargs |-> IF has_cleanup THEN ArgOf(a, cleanup_pc) ELSE 0,
              next_pc |-> IF has_cleanup THEN cleanup_pc + 1 ELSE jpc + 1]
        ELSE [ok |-> FALSE, entry |-> 0, nargs |-> 0, next_pc |-> 0]

RECURSIVE try_emit_return_func_sugar(_, _, _, _, _, _)
try_emit_return_func_sugar(a, st, indent, start_pc, pro_pc, end_pc) ==
    IF pro_pc >= end_pc - 2 THEN NoFold(st)
    ELSE IF pro_pc \in a.ifnot_operand_pcs THEN NoFold(st)
    ELSE IF pro_pc # start_pc /\ HasLabels(a, pro_pc) THEN NoFold(st)
    ELSE With(FuncCallShape(a, pro_pc, end_pc), LAMBDA sh :
         With(StackExprs(a, start_pc, pro_pc), LAMBDA exprs :
             IF /\ sh.ok
                /\ sh.next_pc < end_pc /\ Plain(a, sh.next_pc) /\ IsRet(a, sh.next_pc)
                /\ exprs.ok /\ Len(exprs.stack) = sh.nargs
             THEN [next |-> sh.next_pc + 1,
                   st |-> emit(st, ReturnCallLine(indent, Name("func", sh.entry), RenderAll(exprs.stack)))]
             ELSE try_emit_return_func_sugar(a, st, indent, start_pc, pro_pc + 1, end_pc)))

RECURSIVE try_emit_func_sugar(_, _, _, _, _, _)
try_emit_func_sugar(a, st, indent, start_pc, pro_pc, end_pc) ==
    IF pro_pc >= end_pc - 1 THEN NoFold(st)
    ELSE IF pro_pc \in a.ifnot_operand_pcs THEN NoFold(st)
    ELSE IF pro_pc # start_pc /\ HasLabels(a, pro_pc) THEN NoFold(st)
    ELSE With(FuncCallShape(a, pro_pc, end_pc), LAMBDA sh :
         With(StackExprs(a, start_pc, pro_pc), LAMBDA exprs :
             IF sh.ok /\ exprs.ok /\ Len(exprs.stack) = sh.nargs
             THEN [next |-> sh.next_pc,
                   st |-> emit(st, SugarLine(indent, Name("func", sh.entry), RenderAll(exprs.stack)))]
             ELSE try_emit_func_sugar(a, st, indent, start_pc, pro_pc + 1, end_pc)))

ReturnValueAny(exprs) == exprs.ok /\ Len(exprs.stack) >= 1

\* the prefix leaves exactly one value, and not the bare accumulator
ReturnValueOk(exprs) == exprs.ok /\ Len(exprs.stack) = 1 /\ exprs.stack[1][1] # "acc"

\* `return <expr>` once the pop-to-acc at pc is followed by `ret` or cleanup and `ret`
ReturnFold(a, st, indent, start_pc, pc, end_pc) ==
    With(StackExprs(a, start_pc, pc), LAMBDA exprs :
    LET next_pc == pc + 1
        good == ReturnValueOk(exprs)
    IN  IF IsRet(a, next_pc)
        THEN IF good THEN [done |-> TRUE, next |-> next_pc + 1,
                           st |-> emit(st, ReturnLine(indent, render_expr(exprs.stack[1])))]
             ELSE [done |-> TRUE, next |-> -1, st |-> st]
        ELSE IF IsOp(a, next_pc, 2, 12)
        THEN IF next_pc + 1 >= end_pc \/ ~Plain(a, next_pc + 1) THEN [done |-> TRUE, next |-> -1, st |-> st]
             ELSE IF IsRet(a, next_pc + 1)
             THEN IF good THEN [done |-> TRUE, next |-> next_pc + 2,
                                st |-> emit(emit(st, LeaveLine(indent, ArgOf(a, next_pc))),
                                            ReturnLine(indent, render_expr(exprs.stack[1])))]
                  ELSE [done |-> TRUE, next |-> -1, st |-> st]
             ELSE [done |-> FALSE, next |-> -1, st |-> st]
        ELSE [done |-> FALSE, next |-> -1, st |-> st])

RECURSIVE try_emit_return_sugar(_, _, _, _, _, _)
try_emit_return_sugar(a, st, indent, start_pc, pc, end_pc) ==
    IF pc + 1 >= end_pc THEN NoFold(st)
    ELSE IF pc \in a.ifnot_operand_pcs THEN NoFold(st)
    ELSE IF pc # start_pc /\ HasLabels(a, pc) THEN NoFold(st)
    ELSE IF _is_push16_at(a.data, pc) THEN try_emit_return_sugar(a, st, indent, start_pc, pc + 2, end_pc)
    ELSE IF _decode_word(At(a.data, pc)).long THEN NoFold(st)
    ELSE IF IsOp(a, pc, 2, 8) /\ ArgOf(a, pc) = 0
         THEN IF ~Plain(a, pc + 1) THEN NoFold(st)
              ELSE With(ReturnFold(a, st, indent, start_pc, pc, end_pc), LAMBDA r :
                       IF r.done THEN [next |-> r.next, st |-> r.st]
                       ELSE try_emit_return_sugar(a, st, indent, start_pc, pc + 1, end_pc))
    ELSE try_emit_return_sugar(a, st, indent, start_pc, pc + 1, end_pc)

MAX_BACK_SCAN == 96

\* infer_acc_expr: the start of the straight-line block that holds start_pc
BlockStart(a, start_pc) ==
    LET labelled == {p \in 0 .. start_pc - 1 : p \notin a.ifnot_operand_pcs /\ HasLabels(a, p)}
    IN  IF labelled = {} THEN 0 ELSE 1 + CHOOSE p \in labelled : \A q \in labelled : q <= p

acc_overwritten_between(a, write_pc, start_pc) ==
    \E p2 \in write_pc + 1 .. start_pc - 1 :
        /\ p2 \notin a.ifnot_operand_pcs
        /\ \/ HasLabels(a, p2)
           \/ LET w == _decode_word(At(a.data, p2))
              IN  /\ ~w.long
                  /\ \/ w.instr = 1
                     \/ w.instr = 14 /\ w.flags = 2
                     \/ w.instr = 8 /\ w.flags = 2 /\ w.arg = 0

\* the nearest s below end_at from which [s, end_at) parses to exactly n values
RECURSIVE SuffixExprs(_, _, _, _, _, _)
SuffixExprs(a, s, search_start, end_at, n, stop_at_operand) ==
    IF s < search_start THEN [ok |-> FALSE]
    ELSE IF s \in a.ifnot_operand_pcs
         THEN IF stop_at_operand THEN [ok |-> FALSE]
              ELSE SuffixExprs(a, s - 1, search_start, end_at, n, stop_at_operand)
    ELSE IF HasLabels(a, s) THEN [ok |-> FALSE]
    ELSE IF s > 0 /\ _is_push16_at(a.data, s - 1)
         THEN SuffixExprs(a, s - 1, search_start, end_at, n, stop_at_operand)
    ELSE With(StackExprs(a, s, end_at), LAMBDA exprs :
             IF exprs.ok /\ Len(exprs.stack) = n THEN exprs
             ELSE SuffixExprs(a, s - 1, search_start, end_at, n, stop_at_operand))

try_parse_single_stack_expr(a, block_start, end_at_pc) ==
    SuffixExprs(a, end_at_pc - 1, Max(block_start, end_at_pc - MAX_BACK_SCAN), end_at_pc, 1, FALSE)

\* first loop: the most recent pop-to-acc whose operand expression can be recovered
RECURSIVE AccFromPop(_, _, _, _)
AccFromPop(a, pc0, block_start, start_pc) ==
    IF pc0 < block_start THEN NoHint
    ELSE IF pc0 \in a.ifnot_operand_pcs THEN AccFromPop(a, pc0 - 1, block_start, start_pc)
    ELSE IF HasLabels(a, pc0) THEN NoHint
    ELSE IF IsOp(a, pc0, 2, 8) /\ ArgOf(a, pc0) = 0 /\ ~acc_overwritten_between(a, pc0, start_pc)
         THEN With(try_parse_single_stack_expr(a, block_start, pc0), LAMBDA e :
                  IF e.ok THEN <<"expr", render_expr(e.stack[1])>>
                  ELSE AccFromPop(a, pc0 - 1, block_start, start_pc))
    ELSE AccFromPop(a, pc0 - 1, block_start, start_pc)

\* second loop: a set_acc immediate
RECURSIVE AccFromSet(_, _, _, _)
AccFromSet(a, pc1, block_start, start_pc) ==
    IF pc1 < block_start THEN NoHint
    ELSE IF pc1 \in a.ifnot_operand_pcs THEN AccFromSet(a, pc1 - 1, block_start, start_pc)
    ELSE IF HasLabels(a, pc1) THEN NoHint
    ELSE LET w == _decode_word(At(a.data, pc1))
         IN  IF ~w.long /\ w.instr = 1 /\ ~acc_overwritten_between(a, pc1, start_pc)
             THEN <<"expr", Hex(w.arg, 2)>>
             ELSE AccFromSet(a, pc1 - 1, block_start, start_pc)

\* third loop: the most recent native call
RECURSIVE AccFromCall(_, _, _, _)
AccFromCall(a, call_pc, block_start, start_pc) ==
    IF call_pc < block_start THEN NoHint
    ELSE IF call_pc \in a.ifnot_operand_pcs THEN AccFromCall(a, call_pc - 1, block_start, start_pc)
    ELSE IF HasLabels(a, call_pc) THEN NoHint
    ELSE IF IsOp(a, call_pc, 2, 14) /\ ~acc_overwritten_between(a, call_pc, start_pc)
         THEN LET cleanup_pc == call_pc + 1
                  sym == _native_call_symbol(ArgOf(a, call_pc))
                  known == cleanup_pc < start_pc /\ Plain(a, cleanup_pc) /\ IsOp(a, cleanup_pc, 2, 12)
              IN  With(SuffixExprs(a, call_pc - 1, Max(block_start, call_pc - MAX_BACK_SCAN),
                                   call_pc, ArgOf(a, cleanup_pc), TRUE), LAMBDA best :
                  IF known /\ best.ok THEN <<"call", sym, RenderAll(best.stack)>>
                  ELSE <<"call_unknown", sym>>)
    ELSE AccFromCall(a, call_pc - 1, block_start, start_pc)

infer_acc_expr(a, start_pc) ==
    With(BlockStart(a, start_pc), LAMBDA block_start :
    With(AccFromPop(a, start_pc - 1, block_start, start_pc), LAMBDA h1 :
        IF h1 # NoHint THEN h1
        ELSE With(AccFromSet(a, start_pc - 1, block_start, start_pc), LAMBDA h2 :
             IF h2 # NoHint THEN h2
             ELSE AccFromCall(a, start_pc - 1, block_start, start_pc))))

\* `return acc`, with the comment `# acc = ...` when a hint was found
ReturnAccLine(indent, hint) == Line(indent, "return", <<Ident(<<"acc", <<>>>>), hint>>)

try_emit_return_acc_sugar(a, st, indent, start_pc, end_pc) ==
    IF start_pc >= end_pc \/ start_pc \in a.ifnot_operand_pcs THEN NoFold(st)
    ELSE IF _decode_word(At(a.data, start_pc)).long THEN NoFold(st)
    ELSE IF /\ IsOp(a, start_pc, 2, 12)
            /\ start_pc + 1 < end_pc /\ Plain(a, start_pc + 1) /\ IsRet(a, start_pc + 1)
         THEN [next |-> start_pc + 2,
               st |-> emit(emit(st, LeaveLine(indent, ArgOf(a, start_pc))), ReturnAccLine(indent, NoHint))]
    ELSE IF IsRet(a, start_pc)
         THEN IF a.eager_annotations
              THEN [next |-> start_pc + 1, st |-> [st EXCEPT !.err = TRUE]]
              ELSE [next |-> start_pc + 1, st |-> emit(st, ReturnAccLine(indent, infer_acc_expr(a, start_pc)))]
    ELSE NoFold(st)

\* the folds in the order emit_range tries them
TrySugars(a, st, indent, pc, end_pc) ==
    With(try_emit_return_sugar(a, st, indent, pc, pc, end_pc), LAMBDA r1 :
    IF r1.next # -1 THEN r1 ELSE
    With(try_emit_return_func_sugar(a, st, indent, pc, pc, end_pc), LAMBDA r2 :
    IF r2.next # -1 THEN r2 ELSE
    With(try_emit_return_call_sugar(a, st, indent, pc, pc, end_pc), LAMBDA r3 :
    IF r3.next # -1 THEN r3 ELSE
    With(try_emit_return_acc_sugar(a, st, indent, pc, end_pc), LAMBDA r4 :
    IF r4.next # -1 THEN r4 ELSE
    With(try_emit_func_sugar(a, st, indent, pc, pc, end_pc), LAMBDA r5 :
    IF r5.next # -1 THEN r5 ELSE
    try_emit_call_sugar(a, st, indent, pc, pc, end_pc))))))

-----------------------------------------------------------------------------
(* emit_range *)

IfLine(indent) == Line(indent, "if", <<>>)
ElseLine(indent) == Line(indent, "else", <<>>)
Push16Line(indent, imm) == Line(indent, "push16", <<Hex(imm, 4)>>)
IfnotLine(indent, target) == Line(indent, "ifnot", <<Dec(1), target>>)

\* the else/join entry is targeted only by the hidden operand jump
SuppressAt(a, else_start) ==
    /\ IsSynthetic(preferred_label_at(a, else_start))
    /\ else_start \in a.embedded_jmp_targets
    /\ else_start \notin rendered_label_jump_targets(a)

RECURSIVE emit_range(_, _, _, _, _)
emit_range(a, st, pc, end_pc, indent) ==
    IF pc >= end_pc THEN st
    ELSE
    With(emit_labels(a, st, indent, pc), LAMBDA s1 :
    With(IF a.call_sugar THEN TrySugars(a, s1, indent, pc, end_pc) ELSE NoFold(s1), LAMBDA sg :
        IF sg.next # -1 THEN emit_range(a, sg.st, sg.next, end_pc, indent)
        ELSE IF _is_push16_at(a.data, pc)
        THEN emit_range(a, emit(s1, Push16Line(indent, _push16_imm_at(a.data, pc))), pc + 2, end_pc, indent)
        ELSE IF IsCondAt(a, pc)
        THEN With(StructCond(a, pc, end_pc), LAMBDA c :
             LET op == _decode_word(At(a.data, pc + 1))
             IN  IF c.ok
                 THEN LET s2 == IF SuppressAt(a, c.else_start)
                                THEN [s1 EXCEPT !.sup = @ \cup {c.else_start}] ELSE s1
                          s3 == emit(s2, IfLine(indent))
                      IN  IF c.join_target # -1
                          THEN LET s4 == emit_range(a, s3, c.then_start, c.last_then_pc, indent + 1)
                                   s5 == emit(s4, ElseLine(indent))
                                   s6 == emit_range(a, s5, c.else_start, c.join_target, indent + 1)
                               IN  emit_range(a, emit_blank_line(s6), c.join_target, end_pc, indent)
                          ELSE LET s4 == emit_range(a, s3, c.then_start, c.else_start, indent + 1)
                               IN  emit_range(a, emit_blank_line(s4), c.else_start, end_pc, indent)
                 ELSE IF IsLongJmp(op)
                 THEN emit_range(a, emit(s1, IfnotLine(indent, JumpArg(a, op.arg, 4))), pc + 2, end_pc, indent)
                 ELSE LET s2 == emit(s1, InstrLine(indent, Name("instr", 15), 1, Hex(0, 2)))
                          arg == IF op.instr = 0 THEN JumpArg(a, op.arg, 4) ELSE Hex(op.arg, 4)
                      IN  emit_range(a, emit(s2, InstrLine(indent, InstrName(op.instr), 4, arg)), pc + 2, end_pc, indent))
        ELSE emit_range(a, emit_instr(a, s1, indent, pc), pc + 1, end_pc, indent)))

\* no label is printed after the last instruction
EmitEndLabelsNone(st, names) == st

\* labels at len(data), each preceded by a blank line
RECURSIVE EmitEndLabels(_, _)
EmitEndLabels(st, names) ==
    IF names = <<>> THEN st
    ELSE EmitEndLabels([emit_blank_line(st) EXCEPT !.lines = Append(@, LabelLine(0, Head(names)))], Tail(names))

\* a `label label_N` line
IsSyntheticDef(ln) == ln.k = "label" /\ IsSynthetic(ln.v[1])

\* length of the run of decimal digits of q that starts at position i
RECURSIVE DigitRun(_, _)
DigitRun(q, i) == IF i <= Len(q) /\ q[i] \in 48 .. 57 THEN 1 + DigitRun(q, i + 1) ELSE 0

\* matches of \blabel_\d+\b inside a quoted string
StringRefs(q) ==
    {<<"label", [k \in 1 .. DigitRun(q, i + 6) |-> q[i + 5 + k] - 48]>> :
        i \in {j \in 1 .. Len(q) :
                /\ SubSeq(q, j, Min(j + 5, Len(q))) = <<108, 97, 98, 101, 108, 95>>
                /\ (j = 1 \/ ~IsWordChar(q[j - 1]))
                /\ DigitRun(q, j + 6) >= 1
                /\ LET e == j + 6 + DigitRun(q, j + 6)
                   IN  e > Len(q) \/ ~IsWordChar(q[e])}}

\* the synthetic names a line mentions (synthetic_label_ref_re.findall)
LineRefs(ln) ==
    IF ln.k = "instr" /\ IsIdent(ln.v[3]) /\ IsSynthetic(ln.v[3][2]) THEN {ln.v[3][2]}
    ELSE IF ln.k = "ifnot" /\ IsIdent(ln.v[2]) /\ IsSynthetic(ln.v[2][2]) THEN {ln.v[2][2]}
    ELSE IF ln.k = "str" THEN StringRefs(ln.v[2])
    ELSE {}

referenced_synthetic_labels(lines) ==
    UNION {LineRefs(lines[i]) : i \in {j \in 1 .. Len(lines) : ~IsSyntheticDef(lines[j])}}

\* no sweep: every label definition stays
SweepLabelsKeepAll(lines) == lines

\* the final sweep: drop definitions of unreferenced synthetic labels
SweepLabels(lines) ==
    SelectSeq(lines, LAMBDA ln : ~(IsSyntheticDef(ln) /\ ln.v[1] \notin referenced_synthetic_labels(lines)))

\* decompile on a parsed form: the text as a sequence of lines
\* eager_annotations: the interpreter evaluates the annotation `_Expr | None`
\* when infer_acc_expr runs, and the name `_Expr` is not defined (NameError).
DecompileForm(f, call_sugar, eager_annotations) ==
    With(Analyze(f, call_sugar, eager_annotations), LAMBDA a :
    With(emit_range(a, [lines |-> Header(a), sup |-> {}, err |-> FALSE], 0, Len(f.data), 0), LAMBDA s1 :
        IF s1.err THEN Fail("NameError")
        ELSE [ok |-> TRUE, lines |-> SweepLabels(EmitEndLabels(s1, labels_at(a, Len(f.data))).lines)]))

decompile(emc_bytes, call_sugar, eager_annotations) ==
    With(_parse_emc2(emc_bytes), LAMBDA f :
        IF f.ok THEN DecompileForm(f, call_sugar, eager_annotations) ELSE f)

-----------------------------------------------------------------------------
(* compile: _desugar_structured_control_flow *)

IsBlankLine(ln) == ln.k = "blank"
is_if_header(ln) == ln.k = "if"
is_elif_header(ln) == ln.k = "elif"
is_else_header(ln) == ln.k = "else"

RECURSIVE SuiteEnd(_, _, _)
\* collect_suite: the index after the suite that starts at i
SuiteEnd(sub_lines, i, header_indent) ==
    IF i > Len(sub_lines) THEN i
    ELSE IF IsBlankLine(sub_lines[i]) \/ sub_lines[i].ind > header_indent
         THEN SuiteEnd(sub_lines, i + 1, header_indent)
         ELSE i

collect_suite(sub_lines, i, header_indent) ==
    [suite |-> SubSeq(sub_lines, i, SuiteEnd(sub_lines, i, header_indent) - 1),
     i |-> SuiteEnd(sub_lines, i, header_indent)]

dedent_one(suite_lines, header_indent) ==
    [j \in 1 .. Len(suite_lines) |->
        IF IsBlankLine(suite_lines[j]) THEN Blank
        ELSE [suite_lines[j] EXCEPT !.ind = @ - (header_indent + 1)]]

reindent(lines_in, indent) ==
    [j \in 1 .. Len(lines_in) |->
        IF IsBlankLine(lines_in[j]) THEN lines_in[j]
        ELSE [lines_in[j] EXCEPT !.ind = @ + indent]]

RECURSIVE CollectElifs(_, _, _, _)
\* the suites of the `elif` headers that follow at the same indent
CollectElifs(sub_lines, i, ind, clauses) ==
    IF i > Len(sub_lines) THEN [clauses |-> clauses, i |-> i]
    ELSE IF IsBlankLine(sub_lines[i]) \/ sub_lines[i].ind # ind \/ ~is_elif_header(sub_lines[i])
    THEN [clauses |-> clauses, i |-> i]
    ELSE LET c == collect_suite(sub_lines, i + 1, ind)
         IN  CollectElifs(sub_lines, c.i, ind, Append(clauses, c.suite))

JmpLabelLine(indent, label) == InstrLine(indent, <<"jmp", <<>>>>, 4, Ident(label))
CondMarkerLine(indent) == InstrLine(indent, Name("instr", 15), 1, Hex(0, 2))

RECURSIVE process(_, _, _, _)
RECURSIVE ProcessClauses(_, _, _, _, _, _, _, _)

\* the clauses of one if-statement, from clause k on
ProcessClauses(clauses, k, has_else, ind, end_label, next_label, out, label_counter) ==
    IF k > Len(clauses) THEN [ok |-> TRUE, out |-> out, label_counter |-> label_counter]
    ELSE LET has_next == k < Len(clauses) \/ has_else
             else_label == IF has_next THEN next_label ELSE end_label
             out1 == out \o <<CondMarkerLine(ind), JmpLabelLine(ind, else_label)>>
         IN  With(process(dedent_one(clauses[k], ind), 1, <<>>, label_counter), LAMBDA body :
             IF ~body.ok THEN body
             ELSE LET out2 == out1 \o reindent(body.out, ind)
                  IN  IF has_next
                      THEN ProcessClauses(clauses, k + 1, has_else, ind, end_label,
                               Name("if_else", body.label_counter),
                               out2 \o <<JmpLabelLine(ind, end_label), LabelLine(ind, else_label)>>,
                               body.label_counter + 1)
                      ELSE ProcessClauses(clauses, k + 1, has_else, ind, end_label, next_label,
                               out2, body.label_counter))

process(sub_lines, i, out, label_counter) ==
    IF i > Len(sub_lines) THEN [ok |-> TRUE, out |-> out, label_counter |-> label_counter]
    ELSE LET raw == sub_lines[i]
             ind == raw.ind
         IN  IF IsBlankLine(raw) THEN process(sub_lines, i + 1, Append(out, raw), label_counter)
             ELSE IF is_if_header(raw)
             THEN With(collect_suite(sub_lines, i + 1, ind), LAMBDA then :
                  With(CollectElifs(sub_lines, then.i, ind, <<then.suite>>), LAMBDA cl :
                  LET has_else == /\ cl.i <= Len(sub_lines)
                                  /\ ~IsBlankLine(sub_lines[cl.i])
                                  /\ sub_lines[cl.i].ind = ind
                                  /\ is_else_header(sub_lines[cl.i])
                      els == IF has_else THEN collect_suite(sub_lines, cl.i + 1, ind)
                             ELSE [suite |-> <<>>, i |-> cl.i]
                      end_label == Name("if_end", label_counter)
                      next_label == Name("if_else", label_counter + 1)
                  IN  With(ProcessClauses(cl.clauses, 1, has_else, ind, end_label, next_label,
                                          out, label_counter + 2), LAMBDA cs :
                      IF ~cs.ok THEN cs
                      ELSE IF ~has_else
                      THEN process(sub_lines, els.i, Append(cs.out, LabelLine(ind, end_label)), cs.label_counter)
                      ELSE With(process(dedent_one(els.suite, ind), 1, <<>>, cs.label_counter), LAMBDA else_lowered :
                           IF ~else_lowered.ok THEN else_lowered
                           ELSE process(sub_lines, els.i,
                                    Append(cs.out \o reindent(else_lowered.out, ind), LabelLine(ind, end_label)),
                                    else_lowered.label_counter)))))
             ELSE IF is_elif_header(raw) \/ is_else_header(raw)
             THEN Fail("elif/else without matching if")
             ELSE process(sub_lines, i + 1, Append(out, raw), label_counter)

_desugar_structured_control_flow(source) ==
    With(process(source, 1, <<>>, 0), LAMBDA r :
        IF r.ok THEN [ok |-> TRUE, lines |-> r.out] ELSE r)

-----------------------------------------------------------------------------
(* compile: lexer and parser *)

\* value of a hexadecimal digit character, or -1
HexDigitVal(c) ==
    IF 48 <= c /\ c <= 57 THEN c - 48
    ELSE IF 97 <= c /\ c <= 102 THEN c - 87
    ELSE IF 65 <= c /\ c <= 70 THEN c - 55
    ELSE -1

RECURSIVE _read_single_quoted_string(_, _)
\* q: the characters after the opening quote up to the closing quote
_read_single_quoted_string(q, acc) ==
    IF q = <<>> THEN [ok |-> TRUE, s |-> acc]
    ELSE IF q[1] = 39 THEN Fail("Unexpected character after string.")
    ELSE IF q[1] # 92 THEN _read_single_quoted_string(Tail(q), Append(acc, q[1]))
    ELSE IF Len(q) < 2 THEN Fail("Unterminated string literal.")
    ELSE LET esc == q[2]
             rest == SubSeq(q, 3, Len(q))
         IN  IF esc = 110 THEN _read_single_quoted_string(rest, Append(acc, 10))
             ELSE IF esc = 114 THEN _read_single_quoted_string(rest, Append(acc, 13))
             ELSE IF esc = 116 THEN _read_single_quoted_string(rest, Append(acc, 9))
             ELSE IF esc = 39 THEN _read_single_quoted_string(rest, Append(acc, 39))
             ELSE IF esc = 92 THEN _read_single_quoted_string(rest, Append(acc, 92))
             ELSE IF esc = 120
                  THEN IF Len(rest) < 2 \/ HexDigitVal(rest[1]) = -1 \/ HexDigitVal(rest[2]) = -1
                       THEN Fail("Invalid \\x escape.")
                       ELSE _read_single_quoted_string(SubSeq(rest, 3, Len(rest)),
                                Append(acc, 16 * HexDigitVal(rest[1]) + HexDigitVal(rest[2])))
             ELSE Fail("Unknown escape sequence.")

\* lines the lexer skips entirely: blank lines and comment lines
IsSkipped(ln) == ln.k \in {"blank", "comment"}

\* '# text: present' and '# text: absent'
TextPresentPragma == <<35, 32, 116, 101, 120, 116, 58, 32, 112, 114, 101, 115, 101, 110, 116>>
TextAbsentPragma == <<35, 32, 116, 101, 120, 116, 58, 32, 97, 98, 115, 101, 110, 116>>

\* line.strip().lower() of a comment line
StripLower(chars) == With(RStrip(LStrip(chars)), LAMBDA s : [j \in 1 .. Len(s) |-> Lower(s[j])])

\* what a line says about TEXT: <<TRUE>>, <<FALSE>>, or <<>> when it is no pragma
PragmaLine(ln) ==
    IF ln.k # "comment" THEN <<>>
    ELSE IF StripLower(ln.v[1]) = TextPresentPragma THEN <<TRUE>>
    ELSE IF StripLower(ln.v[1]) = TextAbsentPragma THEN <<FALSE>>
    ELSE <<>>

\* no line is a pragma
PragmaOfNone(lines) == <<>>

\* _parse_kyra_source: the last `# text: present` / `# text: absent` line wins;
\* <<>> is None
PragmaOf(lines) ==
    LET ps == SelectSeq(lines, LAMBDA ln : PragmaLine(ln) # <<>>)
    IN  IF ps = <<>> THEN <<>> ELSE PragmaLine(ps[Len(ps)])

\* dict assignment out[key] = val: a repeated key keeps its position
RECURSIVE DictPut(_, _, _)
DictPut(d, key, val) ==
    IF d = <<>> THEN <<<<key, val>>>>
    ELSE IF Head(d)[1] = key THEN <<<<key, val>>>> \o Tail(d)
    ELSE <<Head(d)>> \o DictPut(Tail(d), key, val)

RECURSIVE _parse_strings_dict(_, _, _)
\* toks[i..] after `strings = {`: entries up to the closing brace
_parse_strings_dict(toks, i, d) ==
    IF i > Len(toks) THEN Fail("Expected }, got EOF.")
    ELSE IF toks[i].k = "strings_close" THEN [ok |-> TRUE, strings |-> d, i |-> i + 1]
    ELSE IF toks[i].k # "str" THEN Fail("Expected IDENT.")
    ELSE LET val == _read_single_quoted_string(toks[i].v[2], <<>>)
         IN  IF ~val.ok THEN val
             ELSE _parse_strings_dict(toks, i + 1, DictPut(d, toks[i].v[1], val.s))

_parse_strings_assignment(toks) ==
    IF toks = <<>> THEN Fail("Expected IDENT, got EOF.")
    ELSE IF toks[1].k = "strings_empty" THEN [ok |-> TRUE, strings |-> <<>>, i |-> 2]
    ELSE IF toks[1].k = "strings_open" THEN _parse_strings_dict(toks, 2, <<>>)
    ELSE Fail("First statement must be strings.")

\* string_key_to_index.get(key): 0-based index, or -1
StringIndex(strings, key) ==
    IF \E j \in 1 .. Len(strings) : strings[j][1] = key
    THEN (CHOOSE j \in 1 .. Len(strings) : strings[j][1] = key) - 1
    ELSE -1

\* a pending instruction: (instr_id, flags, arg) with arg a number, or a label name in ref
Pending(i, f, arg) == [i |-> i, f |-> f, arg |-> arg, ref |-> NoLabel]
PendingRef(i, f, name) == [i |-> i, f |-> f, arg |-> 0, ref |-> name]

_NATIVE_CALL_ALIAS_TO_ID(sym) ==
    IF sym = <<"speak", <<>>>> THEN 1
    ELSE IF sym = <<"tell", <<>>>> THEN 52
    ELSE IF sym = <<"title", <<>>>> THEN 139
    ELSE -1

\* call_NNN (decimal) or an alias; -1 when the symbol is neither or out of range
CallTarget(sym) ==
    IF sym[1] = "call" /\ sym[2] # <<>> THEN FromDigits(sym[2], 10)
    ELSE _NATIVE_CALL_ALIAS_TO_ID(sym)

\* _parse_native_func_symbol: also accepts the legacy func_NNN spelling
_parse_native_func_symbol(sym) ==
    LET v == IF sym[1] \in {"call", "func"} /\ sym[2] # <<>> THEN FromDigits(sym[2], 10)
             ELSE _NATIVE_CALL_ALIAS_TO_ID(sym)
    IN  IF 0 <= v /\ v <= 255 THEN v ELSE -1

\* _NAME_TO_INSTR_ID.get(name), then instr_N; -1 when unknown
InstrId(name) ==
    IF name = <<"jmp", <<>>>> THEN 0
    ELSE IF name = <<"push", <<>>>> THEN 4
    ELSE IF name = <<"call", <<>>>> THEN 14
    ELSE IF name = <<"unary", <<>>>> THEN 16
    ELSE IF name = <<"binary", <<>>>> THEN 17
    ELSE IF name[1] = "instr" /\ name[2] # <<>> THEN FromDigits(name[2], 10)
    ELSE -1

IndexIn(seq, x) == IF \E j \in 1 .. Len(seq) : seq[j] = x THEN (CHOOSE j \in 1 .. Len(seq) : seq[j] = x) - 1 ELSE -1

IsAccExpr(x) ==
    \/ x = Ident(<<"acc", <<>>>>)
    \/ IsEx(x) /\ x[2] = <<"acc", <<>>>> /\ x[3] = <<>>

\* int(raw.strip(), 0) for the decimal literals; -1 when raw is not one
\* (other spellings of a number in a string value are not modelled)
NumericString(raw) ==
    IF /\ raw # <<>>
       /\ \A j \in 1 .. Len(raw) : 48 <= raw[j] /\ raw[j] <= 57
       /\ (raw[1] # 48 \/ \A j \in 1 .. Len(raw) : raw[j] = 48)
    THEN FromDigits([j \in 1 .. Len(raw) |-> raw[j] - 48], 10)
    ELSE -1

OkIns(ins) == [ok |-> TRUE, ins |-> ins]

RECURSIVE emit_value_expr(_, _)
\* the instructions that push the value of x
emit_value_expr(x, strings) ==
    IF IsNum(x)
    THEN IF NumVal(x) <= 255 THEN OkIns(<<Pending(4, 2, NumVal(x))>>)
         ELSE Fail("Immediate value out of range for i8 literal.")
    ELSE IF IsIdent(x) /\ ~IsAccExpr(x)
    THEN IF StringIndex(strings, x[2]) = -1 THEN Fail("Unknown string key.")
         ELSE IF StringIndex(strings, x[2]) > 255 THEN Fail("TEXT index out of range for i8 literal.")
         ELSE OkIns(<<Pending(4, 2, StringIndex(strings, x[2]))>>)
    ELSE
    LET n == IF IsIdent(x) THEN <<"acc", <<>>>> ELSE x[2]
        a == IF IsIdent(x) THEN <<>> ELSE x[3]
        one_num == Len(a) = 1 /\ IsNum(a[1])
    IN  IF n = <<"u16", <<>>>>
        THEN IF Len(a) # 1 \/ IsEx(a[1]) THEN Fail("u16 expects 1 arg.")
             ELSE LET v == IF IsNum(a[1]) THEN NumVal(a[1])
                           ELSE IF StringIndex(strings, a[1][2]) = -1 THEN -1
                           ELSE NumericString(strings[StringIndex(strings, a[1][2]) + 1][2])
                  IN  IF v < 0 \/ v > 65535 THEN Fail("u16 value.")
                      ELSE OkIns(<<Pending(3, 1, 0), Pending(-2, 0, v)>>)
        ELSE IF n \in {<<"var", <<>>>>, <<"arg", <<>>>>, <<"local", <<>>>>}
        THEN IF ~one_num \/ NumVal(a[1]) > 255 THEN Fail("expects 1 numeric arg in 0..255.")
             ELSE OkIns(<<Pending(IF n[1] = "var" THEN 5 ELSE IF n[1] = "arg" THEN 6 ELSE 7, 2, NumVal(a[1]))>>)
        ELSE IF n = <<"acc", <<>>>>
        THEN IF a # <<>> THEN Fail("acc expects no args.") ELSE OkIns(<<Pending(2, 2, 0)>>)
        ELSE IF n[2] = <<>> /\ IndexIn(_UN_ID_TO_NAME, n[1]) # -1
        THEN IF Len(a) # 1 THEN Fail("expects 1 arg.")
             ELSE LET r == emit_value_expr(a[1], strings)
                  IN  IF ~r.ok THEN r
                      ELSE OkIns(Append(r.ins, Pending(16, 2, IndexIn(_UN_ID_TO_NAME, n[1]))))
        ELSE IF n[2] = <<>> /\ IndexIn(_BIN_ID_TO_NAME, n[1]) # -1
        THEN IF Len(a) # 2 THEN Fail("expects 2 args.")
             ELSE LET r1 == emit_value_expr(a[1], strings)
                      r2 == emit_value_expr(a[2], strings)
                  IN  IF ~r1.ok THEN r1
                      ELSE IF ~r2.ok THEN r2
                      ELSE OkIns(Append(r1.ins \o r2.ins, Pending(17, 2, IndexIn(_BIN_ID_TO_NAME, n[1]))))
        ELSE \* raw single-word instruction expression: foo(flags, arg)
             IF InstrId(n) = -1 THEN Fail("Unknown value expression.")
             ELSE IF InstrId(n) > 31 THEN Fail("Instruction id out of range.")
             ELSE IF Len(a) # 2 \/ ~IsNum(a[1]) \/ ~IsNum(a[2]) THEN Fail("Instruction expression expects 2 numeric args.")
             ELSE IF NumVal(a[1]) > 7 THEN Fail("Flags out of range (0..7).")
             ELSE IF NumVal(a[2]) > 255 THEN Fail("Arg out of range (0..255).")
             ELSE OkIns(<<Pending(InstrId(n), NumVal(a[1]), NumVal(a[2]))>>)

RECURSIVE EmitArgs(_, _)
\* for a in args: emit_value_expr(a)
EmitArgs(args, strings) ==
    IF args = <<>> THEN OkIns(<<>>)
    ELSE With(emit_value_expr(Head(args), strings), LAMBDA r :
             IF ~r.ok THEN r
             ELSE With(EmitArgs(Tail(args), strings), LAMBDA rs :
                  IF ~rs.ok THEN rs ELSE OkIns(r.ins \o rs.ins)))

\* instr_12(2, leave_n) when a `leave N` is pending (leave = -1: none)
LeaveIns(leave) == IF leave = -1 THEN <<>> ELSE <<Pending(12, 2, leave)>>

\* the `return` statement
LowerReturn(value, leave, strings) ==
    IF IsAccExpr(value) THEN OkIns(LeaveIns(leave) \o <<Pending(8, 2, 1)>>)
    ELSE IF IsEx(value) /\ CallTarget(value[2]) # -1
    THEN With(EmitArgs(value[3], strings), LAMBDA r :
             IF CallTarget(value[2]) > 255 THEN Fail("Call target out of range (0..255).")
             ELSE IF ~r.ok THEN r
             ELSE OkIns(r.ins \o <<Pending(14, 2, CallTarget(value[2])), Pending(12, 2, Len(value[3]))>>
                        \o LeaveIns(leave) \o <<Pending(8, 2, 1)>>))
    ELSE IF IsEx(value) /\ value[2][1] = "func" /\ value[2][2] # <<>>
    THEN With(EmitArgs(value[3], strings), LAMBDA r :
         LET entry_pc == FromDigits(value[2][2], 10)
         IN  IF entry_pc > 32767 THEN Fail("Function target out of range (0..0x7fff).")
             ELSE IF ~r.ok THEN r
             ELSE OkIns(r.ins \o <<Pending(2, 2, 1), Pending(0, 4, entry_pc)>>
                        \o (IF value[3] # <<>> THEN <<Pending(12, 2, Len(value[3]))>> ELSE <<>>)
                        \o LeaveIns(leave) \o <<Pending(8, 2, 1)>>))
    ELSE With(emit_value_expr(value, strings), LAMBDA r :
             IF ~r.ok THEN r
             ELSE OkIns(r.ins \o <<Pending(8, 2, 0)>> \o LeaveIns(leave) \o <<Pending(8, 2, 1)>>))

\* call_NNN(args) / alias(args) and func_N(args) statements
LowerSugar(name, args, strings) ==
    IF name[1] = "call" \/ _NATIVE_CALL_ALIAS_TO_ID(name) # -1
    THEN With(EmitArgs(args, strings), LAMBDA r :
             IF CallTarget(name) < 0 \/ CallTarget(name) > 255 THEN Fail("Call target out of range (0..255).")
             ELSE IF ~r.ok THEN r
             ELSE OkIns(r.ins \o <<Pending(14, 2, CallTarget(name)), Pending(12, 2, Len(args))>>))
    ELSE IF name[1] = "func"
    THEN With(EmitArgs(args, strings), LAMBDA r :
         LET entry_pc == FromDigits(name[2], 10)
         IN  IF name[2] = <<>> \/ entry_pc > 32767 THEN Fail("Function target out of range (0..0x7fff).")
             ELSE IF ~r.ok THEN r
             ELSE OkIns(r.ins \o <<Pending(2, 2, 1), Pending(0, 4, entry_pc)>>
                        \o (IF args # <<>> THEN <<Pending(12, 2, Len(args))>> ELSE <<>>)))
    ELSE Fail("Unknown statement.")

\* labels: the dict name -> pc as a set of pairs
HasName(labels, name) == \E p \in labels : p[1] = name

\* every label resolves to the start of DATA
PcOfStart(labels, name) == 0

PcOf(labels, name) == (CHOOSE p \in labels : p[1] = name)[2]

\* parser state after the strings/globals header
ParserInit == [ok |-> TRUE, pc |-> 0, pending_instrs |-> <<>>, pending_ifnots |-> <<>>,
               labels |-> {}, pending_leave_n |-> -1]

AddIns(ps, ins) ==
    [ps EXCEPT !.pending_instrs = @ \o ins, !.pc = @ + Len(ins), !.pending_leave_n = -1]

AddLowered(ps, r) == IF r.ok THEN AddIns(ps, r.ins) ELSE r

\* a trailing drop is never seen
DropOfNone(ln) == -1

\* the N of a trailing `, drop(N)` on a return line, kept after the value
\* and the comment; -1 (None) without one
DropOf(ln) == IF Len(ln.v) >= 3 THEN NumVal(ln.v[3]) ELSE -1

\* one statement of the main loop of parse_program: `label name` and `name:`
\* are the lines of kind label and name_colon
ParseStatement(ps, ln, strings) ==
    IF ps.pending_leave_n # -1 /\ ln.k # "return" THEN Fail("leave must be immediately followed by return.")
    ELSE IF ln.k = "leave"
    THEN IF NumVal(ln.v[1]) > 255 THEN Fail("leave arg out of range (0..255).")
         ELSE [ps EXCEPT !.pending_leave_n = NumVal(ln.v[1])]
    ELSE IF ln.k = "return"
    THEN IF DropOf(ln) > 255 THEN Fail("drop(...) arg out of range (0..255).")
         ELSE IF ps.pending_leave_n # -1 /\ DropOf(ln) # -1
         THEN Fail("Use either leave N or , drop(N) on a return, not both.")
         ELSE AddLowered(ps, LowerReturn(ln.v[1],
                  IF ps.pending_leave_n # -1 THEN ps.pending_leave_n ELSE DropOf(ln), strings))
    ELSE IF ln.k \in {"label", "name_colon"}
    THEN IF HasName(ps.labels, ln.v[1]) THEN Fail("Duplicate label.")
         ELSE [ps EXCEPT !.labels = @ \cup {<<ln.v[1], ps.pc>>}]
    ELSE IF ln.k = "push16"
    THEN IF NumVal(ln.v[1]) > 65535 THEN Fail("push16 value out of range (0..0xffff).")
         ELSE AddIns(ps, <<Pending(3, 1, 0), Pending(-2, 0, NumVal(ln.v[1]))>>)
    ELSE IF ln.k = "sugar" THEN AddLowered(ps, LowerSugar(ln.v[1], ln.v[2], strings))
    ELSE IF ln.k = "ifnot"
    THEN IF NumVal(ln.v[1]) # 1 THEN Fail("Only ifnot(1, ...) is supported.")
         ELSE [AddIns(ps, <<Pending(15, 1, 0), Pending(-1, 0, 0)>>)
                  EXCEPT !.pending_ifnots = Append(@, ln.v[2])]
    ELSE IF ln.k = "instr"
    THEN LET instr_id == InstrId(ln.v[1])
             flags == NumVal(ln.v[2])
             arg == ln.v[3]
         IN  IF instr_id = -1 THEN Fail("Unknown statement.")
             ELSE IF instr_id > 31 THEN Fail("Instruction id out of range.")
             ELSE IF flags > 7 THEN Fail("Flags out of range (0..7).")
             ELSE IF instr_id = 14 /\ IsIdent(arg)
             THEN IF _parse_native_func_symbol(arg[2]) = -1 THEN Fail("Invalid native call target symbol.")
                  ELSE AddIns(ps, <<Pending(14, flags, _parse_native_func_symbol(arg[2]))>>)
             ELSE IF instr_id = 0
             THEN IF IsIdent(arg) THEN AddIns(ps, <<PendingRef(0, flags, arg[2])>>)
                  ELSE IF flags = 4 /\ NumVal(arg) > 32767 THEN Fail("Long-jmp target out of range (0..0x7fff).")
                  ELSE IF flags # 4 /\ NumVal(arg) > 255 THEN Fail("Arg out of range (0..255).")
                  ELSE AddIns(ps, <<Pending(0, flags, NumVal(arg))>>)
             ELSE IF IsIdent(arg) THEN Fail("arg must be a number.")
             ELSE IF NumVal(arg) > 255 THEN Fail("Arg out of range (0..255).")
             ELSE AddIns(ps, <<Pending(instr_id, flags, NumVal(arg))>>)
    ELSE Fail("Unexpected token.")

RECURSIVE ParseStatements(_, _, _, _)
ParseStatements(ps, toks, i, strings) ==
    IF ~ps.ok \/ i > Len(toks) THEN ps
    ELSE ParseStatements(ParseStatement(ps, toks[i], strings), toks, i + 1, strings)

\* a short form for every word: flags << 13 | opcode << 8 | arg
encode_word_short(flags, instr_id, arg) == (flags % 8) * 8192 + (instr_id % 32) * 256 + (arg % 256)

\* the word of one lowered instruction: 0x8000 | (arg & 0x7FFF) for opcode 0
\* with flags 4, else (flags & 7) << 13 | (instr_id & 0x1f) << 8 | (arg & 0xff)
encode_word(flags, instr_id, arg) ==
    IF instr_id = 0 /\ flags = 4 THEN 32768 + (arg % 32768)
    ELSE (flags % 8) * 8192 + (instr_id % 32) * 256 + (arg % 256)

\* the words of pending_instrs; ifnot_i counts the operands resolved so far
RECURSIVE EncodeWords(_, _, _, _, _)
EncodeWords(ps, k, ifnot_i, labels, data) ==
    IF k > Len(ps.pending_instrs) THEN [ok |-> TRUE, data |-> data]
    ELSE LET p == ps.pending_instrs[k]
         IN  IF p.i = -1
             THEN LET target == ps.pending_ifnots[ifnot_i + 1]
                      unknown == IsIdent(target) /\ ~HasName(labels, target[2])
                      t == IF IsIdent(target) THEN PcOf(labels, target[2]) ELSE NumVal(target)
                  IN  IF unknown THEN Fail("Unknown label in ifnot.")
                      ELSE IF t > 32767 THEN Fail("ifnot target out of range (0..0x7fff).")
                      ELSE EncodeWords(ps, k + 1, ifnot_i + 1, labels, Append(data, 32768 + t))
             ELSE IF p.i = -2
             THEN IF ~_u16_ok(p.arg) THEN Fail("Value out of u16 range.")
                  ELSE EncodeWords(ps, k + 1, ifnot_i, labels, Append(data, p.arg))
             ELSE IF p.ref # NoLabel /\ ~HasName(labels, p.ref) THEN Fail("Unknown label in jmp.")
             ELSE LET arg == IF p.ref # NoLabel THEN PcOf(labels, p.ref) ELSE p.arg
                  IN  IF p.i = 0 /\ p.f = 4
                      THEN IF arg > 32767 THEN Fail("jmp label target out of 15-bit range.")
                           ELSE EncodeWords(ps, k + 1, ifnot_i, labels, Append(data, encode_word(p.f, p.i, arg)))
                      ELSE IF p.ref # NoLabel /\ arg > 255 THEN Fail("jmp label target out of u8 range.")
                      ELSE EncodeWords(ps, k + 1, ifnot_i, labels, Append(data, encode_word(p.f, p.i, arg)))

\* the offsets of `globals = [...]`
ResolveGlobals(names, labels) ==
    IF \E j \in 1 .. Len(names) : ~HasName(labels, names[j]) THEN Fail("Unknown label in globals.")
    ELSE IF \E j \in 1 .. Len(names) : ~_u16_ok(PcOf(labels, names[j])) THEN Fail("Value out of u16 range.")
    ELSE [ok |-> TRUE, order |-> [j \in 1 .. Len(names) |-> PcOf(labels, names[j])]]

parse_program(toks, text_present) ==
    With(_parse_strings_assignment(toks), LAMBDA sa :
    IF ~sa.ok THEN sa ELSE
    LET has_globals == sa.i <= Len(toks) /\ toks[sa.i].k = "globals"
        first == IF has_globals THEN sa.i + 1 ELSE sa.i
    IN
    With(ParseStatements(ParserInit, toks, first, sa.strings), LAMBDA ps :
    IF ~ps.ok THEN ps
    ELSE IF ps.pending_leave_n # -1 THEN Fail("leave must be immediately followed by return.") ELSE
    With(IF has_globals THEN ResolveGlobals(toks[sa.i].v, ps.labels) ELSE [ok |-> TRUE, order |-> <<>>], LAMBDA order :
    IF ~order.ok THEN order ELSE
    With(EncodeWords(ps, 1, 0, ps.labels, <<>>), LAMBDA words :
    IF ~words.ok THEN words
    ELSE [ok |-> TRUE, strings |-> sa.strings, text_present |-> text_present,
          order |-> order.order, data |-> words.data]))))

_parse_kyra_source(source) ==
    parse_program(SelectSeq(source, LAMBDA ln : ~IsSkipped(ln)), PragmaOf(source))

\* compile: the bytes, or ok = FALSE when the source is rejected
compile(source) ==
    With(_desugar_structured_control_flow(source), LAMBDA d :
    IF ~d.ok THEN d ELSE
    With(_parse_kyra_source(d.lines), LAMBDA parsed :
    IF ~parsed.ok THEN parsed ELSE
    LET strings == [j \in 1 .. Len(parsed.strings) |-> parsed.strings[j][2]]
        text_present == IF parsed.text_present = <<>> THEN strings # <<>> ELSE parsed.text_present[1]
    IN  IF \E j \in 1 .. Len(strings) : ~IsAscii(strings[j]) THEN Fail("strings values must be ASCII.")
        ELSE _emit_emc2([order |-> parsed.order, strings |-> strings, data |-> parsed.data,
                         text_present |-> text_present])))

-----------------------------------------------------------------------------
(* The pipelines *)

Unset == [ok |-> FALSE, err |-> "unset"]

\* all sequences over S of length at most n
RECURSIVE SeqsUpTo(_, _)
SeqsUpTo(S, n) ==
    IF n = 0 THEN {<<>>}
    ELSE LET shorter == SeqsUpTo(S, n - 1)
         IN  shorter \cup {Append(q, x) : q \in {r \in shorter : Len(r) = n - 1}, x \in S}

\* the container of a program (built by the emitter, as the shipped files are)
ContainerOf(order, strings, text_present, data) ==
    _emit_emc2([order |-> order, strings |-> strings, text_present |-> text_present, data |-> data]).bytes

StartFrom(in, bytes, eager) ==
    /\ phase = "start"
    /\ input = in
    /\ buf = bytes
    /\ form = Unset
    /\ text = Unset
    /\ out_bytes = Unset
    /\ text2 = Unset
    /\ annotations_evaluated = eager

\* text = decompile(buf)
Decompile ==
    /\ phase = "start"
    /\ phase' = "decompiled"
    /\ form' = _parse_emc2(buf)
    /\ text' = decompile(buf, TRUE, annotations_evaluated)
    /\ UNCHANGED <<input, buf, out_bytes, text2, annotations_evaluated>>

\* out_bytes = compile(text)
Compile ==
    /\ phase = "decompiled"
    /\ text.ok
    /\ phase' = "compiled"
    /\ out_bytes' = compile(text.lines)
    /\ UNCHANGED <<input, buf, form, text, text2, annotations_evaluated>>

\* text2 = decompile(out_bytes)
Redecompile ==
    /\ phase = "compiled"
    /\ out_bytes.ok
    /\ phase' = "redecompiled"
    /\ text2' = decompile(out_bytes.bytes, TRUE, annotations_evaluated)
    /\ UNCHANGED <<input, buf, form, text, out_bytes, annotations_evaluated>>

NextRoundTrip == Decompile \/ Compile \/ Redecompile

MaxLen == 4

W(flags, instr, arg) == flags * 8192 + instr * 256 + arg
LJ(target) == 32768 + target

\* condition marker, long jumps, push, push16 prefix, ret, native call, cleanup
RoundTripWords == {W(1, 15, 0), LJ(2), LJ(3), W(2, 4, 1), W(1, 3, 0), W(2, 8, 1), W(2, 14, 5), W(2, 12, 0)}

\* the TEXT chunk: absent, present and empty, present with one string
RoundTripTexts ==
    {[text_present |-> FALSE, strings |-> <<>>],
     [text_present |-> TRUE, strings |-> <<>>],
     [text_present |-> TRUE, strings |-> <<<<97>>>>]}

InitRoundTrip ==
    \E data \in SeqsUpTo(RoundTripWords, MaxLen), t \in RoundTripTexts, eager \in BOOLEAN :
        StartFrom([order |-> <<0>>, strings |-> t.strings, text_present |-> t.text_present, data |-> data],
                  ContainerOf(<<0>>, t.strings, t.text_present, data), eager)

SpecRoundTrip == InitRoundTrip /\ [][NextRoundTrip]_vars

-----------------------------------------------------------------------------
(* Round trip *)

\* C1: for every container that decompile accepts, compile(decompile(b))
\* succeeds and returns exactly the bytes of b.
RoundTripIdentity ==
    phase = "compiled" => out_bytes.ok /\ out_bytes.bytes = buf

\* a container whose text compiles, to other bytes
RoundTripDiffers ==
    /\ phase = "compiled"
    /\ out_bytes.ok
    /\ out_bytes.bytes # buf

\* C2: whenever compile(decompile(b)) succeeds, decompiling its result
\* prints the same text as decompile(b).
TextualIdempotence ==
    phase = "redecompiled" => text2 = text

\* C4: decompile followed by compile keeps the presence of the TEXT chunk:
\* absent stays absent, present (also when empty) stays present.
TextPresencePreserved ==
    (phase = "compiled" /\ out_bytes.ok)
        => _parse_emc2(out_bytes.bytes).text_present = form.text_present

\* a container with a present, empty TEXT chunk went through compile
EmptyTextCompiled ==
    /\ phase = "compiled"
    /\ out_bytes.ok
    /\ form.text_present
    /\ form.strings = <<>>

-----------------------------------------------------------------------------
(* Labels *)

\* condition marker, long jumps, push, short jump
LabelWords == {W(1, 15, 0), LJ(3), LJ(4), W(2, 4, 1), W(0, 0, 2)}

\* one or two ORDR entries inside the program or at its end
LabelOrders(data) == {<<p>> : p \in 0 .. Len(data)} \cup {<<0, p>> : p \in 0 .. Len(data)}

\* no TEXT chunk, or one string that reads 'label_4'
LabelTexts ==
    {[text_present |-> FALSE, strings |-> <<>>],
     [text_present |-> TRUE, strings |-> <<<<108, 97, 98, 101, 108, 95, 52>>>>]}

InitLabels ==
    \E data \in SeqsUpTo(LabelWords, MaxLen), t \in LabelTexts, eager \in BOOLEAN :
        \E order \in LabelOrders(data) :
            StartFrom([order |-> order, strings |-> t.strings, text_present |-> t.text_present, data |-> data],
                      ContainerOf(order, t.strings, t.text_present, data), eager)

SpecLabels == InitLabels /\ [][NextRoundTrip]_vars

\* the label definition lines of a text
LabelDefs(lines) == {i \in 1 .. Len(lines) : lines[i].k = "label"}

\* C6: in every text that decompile produces, every name defined by a
\* 'label label_N' line occurs on at least one line that is not a label definition.
SyntheticLabelsReferenced ==
    text.ok =>
        \A i \in LabelDefs(text.lines) :
            IsSynthetic(text.lines[i].v[1]) =>
                \E j \in (1 .. Len(text.lines)) \ LabelDefs(text.lines) :
                    text.lines[i].v[1] \in LineRefs(text.lines[j])

\* the sweep had a definition to drop: a jump folded into if/else was the
\* only reference of label_4, and the text still defines another label_N
SweepDroppedLabel ==
    /\ text.ok
    /\ form.strings = <<>>
    /\ 4 \in Analyze(form, TRUE, annotations_evaluated).jump_labels
    /\ \A i \in LabelDefs(text.lines) : text.lines[i].v[1] # Name("label", 4)
    /\ \E i \in LabelDefs(text.lines) : IsSynthetic(text.lines[i].v[1])

\* the PC a label name stands for: global_k is ORDR entry k, label_N and func_N are PC N
LabelPc(name) ==
    IF name[1] = "global" THEN form.order[FromDigits(name[2], 10) + 1] ELSE FromDigits(name[2], 10)

\* the label names printed as the target of a jmp
JmpTargets(lines) ==
    {lines[i].v[3][2] : i \in {j \in 1 .. Len(lines) :
        lines[j].k = "instr" /\ lines[j].v[1] = InstrName(0) /\ IsIdent(lines[j].v[3])}}

\* the label names printed as the target of an ifnot
IfnotTargets(lines) ==
    {lines[i].v[2][2] : i \in {j \in 1 .. Len(lines) : lines[j].k = "ifnot" /\ IsIdent(lines[j].v[2])}}

\* the label names listed in globals
ListedGlobals(lines) ==
    UNION {{lines[i].v[k] : k \in 1 .. Len(lines[i].v)} : i \in {j \in 1 .. Len(lines) : lines[j].k = "globals"}}

\* C7: in every decompile output, each label printed as the target of a jmp
\* and each label listed in globals stands for a PC that pass A classified
\* as executed, or for len(data).
ExecutedPcClosure ==
    text.ok =>
        \A name \in JmpTargets(text.lines) \cup ListedGlobals(text.lines) :
            LabelPc(name) \in ExecutedPcs(form.data).executed_pcs \cup {Len(form.data)}

\* a text lists a global whose ORDR entry is the operand word of a condition marker
GlobalAtOperand ==
    /\ text.ok
    /\ \E name \in ListedGlobals(text.lines) :
            LabelPc(name) \in ExecutedPcs(form.data).ifnot_operand_pcs

\* every ORDR entry is an executed PC or len(data)
GlobalsAtExecutedPcs ==
    \A i \in 1 .. Len(form.order) :
        form.order[i] \in ExecutedPcs(form.data).executed_pcs \cup {Len(form.data)}

\* C8: every label name that decompile prints as an argument of jmp or
\* ifnot, or lists in globals, is defined by exactly one label line of the
\* same output, and compile does not fail with an unknown or duplicate
\* label on that output; also when the label's PC is a join jump hidden by
\* an if/else fold.  Stated for the containers whose ORDR entries are
\* executed PCs (or len(data)), the ones that satisfy the closure of C7.
PrintedLabelsDefinedOnce ==
    /\ (text.ok /\ GlobalsAtExecutedPcs) =>
        \A name \in JmpTargets(text.lines) \cup IfnotTargets(text.lines) \cup ListedGlobals(text.lines) :
            Cardinality({i \in LabelDefs(text.lines) : text.lines[i].v[1] = name}) = 1
    /\ (phase = "compiled" /\ GlobalsAtExecutedPcs /\ ~out_bytes.ok) =>
        out_bytes.err \notin {"Unknown label in globals.", "Unknown label in jmp.",
                              "Unknown label in ifnot.", "Duplicate label."}

\* a global label stands for the PC of a join jump that an if/else fold hides
GlobalAtHiddenJoin ==
    /\ text.ok
    /\ GlobalsAtExecutedPcs
    /\ \E i \in 1 .. Len(form.order) :
            /\ form.order[i] \in Analyze(form, TRUE, annotations_evaluated).hidden_pcs
            /\ form.order[i] \in ExecutedPcs(form.data).executed_pcs

-----------------------------------------------------------------------------
(* The container: parse, then emit *)

MaxChunks == 3

TagJUNK == <<74, 85, 78, 75>>

Chunk(tag, payload) == [tag |-> tag, payload |-> payload]

\* ORDR: one entry, or one byte.  DATA: no word, one word, or one byte.
\* TEXT: no string; one empty string (an odd-sized chunk); one string that
\* is a single NUL byte; a table whose first offset is wrong.
\* JUNK: a chunk the program does not know.
Chunks ==
    {Chunk(TagORDR, <<0, 0>>), Chunk(TagORDR, <<0>>),
     Chunk(TagDATA, <<>>), Chunk(TagDATA, <<47, 0>>), Chunk(TagDATA, <<47>>),
     Chunk(TagTEXT, <<>>), Chunk(TagTEXT, <<0, 2, 0>>), Chunk(TagTEXT, <<0, 2, 0, 0>>),
     Chunk(TagTEXT, <<0, 3, 97, 0>>),
     Chunk(TagJUNK, <<1>>)}

Defects == {"none", "magic", "length", "tag", "cut_header", "cut_payload", "no_pad", "bad_pad"}

\* a chunk as it lies in the file, with the given byte as the pad of an odd size
ChunkBytes(c, pad) ==
    c.tag \o _write_u32be(Len(c.payload)) \o c.payload \o (IF Len(c.payload) % 2 = 1 THEN <<pad>> ELSE <<>>)

\* the file of a chunk list, with one defect
BuildBuffer(chunks, defect) ==
    LET body == Flatten([i \in 1 .. Len(chunks) |-> ChunkBytes(chunks[i], IF defect = "bad_pad" THEN 1 ELSE 0)])
        last == IF defect = "cut_header" THEN <<74, 85, 78>>
                ELSE IF defect = "cut_payload" THEN TagJUNK \o _write_u32be(4) \o <<1, 2>>
                ELSE IF defect = "no_pad" THEN TagJUNK \o _write_u32be(1) \o <<1>>
                ELSE <<>>
        payload == (IF defect = "tag" THEN <<69, 77, 67, 51>> ELSE TagEMC2) \o body \o last
    IN  (IF defect = "magic" THEN <<82, 73, 70, 70>> ELSE TagFORM)
        \o _write_u32be(8 + Len(payload) + (IF defect = "length" THEN 1 ELSE 0))
        \o payload

InitContainer ==
    \E chunks \in SeqsUpTo(Chunks, MaxChunks), defect \in Defects :
        StartFrom([chunks |-> chunks, defect |-> defect], BuildBuffer(chunks, defect), FALSE)

\* form = _parse_emc2(buf)
Parse ==
    /\ phase = "start"
    /\ phase' = "parsed"
    /\ form' = _parse_emc2(buf)
    /\ UNCHANGED <<input, buf, text, out_bytes, text2, annotations_evaluated>>

\* out_bytes = _emit_emc2(form)
Emit ==
    /\ phase = "parsed"
    /\ form.ok
    /\ phase' = "emitted"
    /\ out_bytes' = _emit_emc2(form)
    /\ UNCHANGED <<input, buf, form, text, text2, annotations_evaluated>>

NextContainer == Parse \/ Emit

SpecContainer == InitContainer /\ [][NextContainer]_vars

\* the tags of the chunk list, in file order
TagsOf(chunks) == [i \in 1 .. Len(chunks) |-> chunks[i].tag]

\* the chunk of that tag which lies last in the file (the one in force)
LastChunk(chunks, tag) ==
    chunks[CHOOSE i \in 1 .. Len(chunks) :
            chunks[i].tag = tag /\ \A j \in (i + 1) .. Len(chunks) : chunks[j].tag # tag]

HasChunk(chunks, tag) == \E i \in 1 .. Len(chunks) : chunks[i].tag = tag

OddChunk(chunks, tag) == HasChunk(chunks, tag) /\ Len(LastChunk(chunks, tag).payload) % 2 = 1

\* the buffer has one of the defects that the claim lists
Malformed ==
    \/ SubSeq(buf, 1, 4) # TagFORM
    \/ FromBytesBE(SubSeq(buf, 5, 8)) # Len(buf)
    \/ SubSeq(buf, 9, 12) # TagEMC2
    \/ input.defect \in {"cut_header", "cut_payload", "no_pad"}
    \/ input.defect = "bad_pad" /\ \E i \in 1 .. Len(input.chunks) : Len(input.chunks[i].payload) % 2 = 1
    \/ ~HasChunk(input.chunks, TagORDR)
    \/ ~HasChunk(input.chunks, TagDATA)
    \/ OddChunk(input.chunks, TagORDR)
    \/ OddChunk(input.chunks, TagDATA)

\* C5: _parse_emc2 raises whenever the buffer does not start with FORM, the
\* u32 at offset 4 differs from len(buffer), the EMC2 tag is missing, a chunk
\* header or payload runs past the end, an odd-sized chunk is not followed
\* by a 0x00 pad byte, ORDR or DATA is absent, or the ORDR or DATA size is odd.
ParseRejectsMalformed ==
    (phase # "start" /\ Malformed) => ~form.ok

\* an otherwise complete file whose odd-sized TEXT chunk is followed by 0x01
PadDefectRejected ==
    /\ phase = "parsed"
    /\ input.defect = "bad_pad"
    /\ TagsOf(input.chunks) = <<TagORDR, TagTEXT, TagDATA>>
    /\ Len(input.chunks[2].payload) % 2 = 1
    /\ ~OddChunk(input.chunks, TagORDR)
    /\ ~OddChunk(input.chunks, TagDATA)
    /\ ~form.ok

\* C3 as stated: for every byte buffer that _parse_emc2 accepts,
\* _emit_emc2(_parse_emc2(b)) = b.
ChunkIdentity ==
    phase = "emitted" => out_bytes.ok /\ out_bytes.bytes = buf

\* the file holds ORDR, at most one TEXT, and DATA, once each and in this order
CanonicalLayout ==
    TagsOf(input.chunks) \in {<<TagORDR, TagDATA>>, <<TagORDR, TagTEXT, TagDATA>>}

\* C3, amended: for every accepted buffer whose chunks are exactly ORDR, an
\* optional TEXT and DATA in this order, _emit_emc2(_parse_emc2(b)) = b,
\* pad byte of an odd-sized chunk included, unless a decoded TEXT string holds
\* a NUL byte, and then _emit_emc2 raises.
ChunkIdentityCanonical ==
    (phase = "emitted" /\ CanonicalLayout) =>
        IF \E j \in 1 .. Len(form.strings) : HasNul(form.strings[j])
        THEN ~out_bytes.ok
        ELSE out_bytes.ok /\ out_bytes.bytes = buf

\* an accepted file with an odd-sized TEXT chunk and its pad byte was re-emitted
OddTextReemitted ==
    /\ phase = "emitted"
    /\ CanonicalLayout
    /\ Len(input.chunks) = 3
    /\ Len(input.chunks[2].payload) % 2 = 1
    /\ out_bytes.ok

-----------------------------------------------------------------------------
(* If/else *)

MaxBody == 2

\* push, native call, ret, cleanup: whole instructions of one word
IfWords == {W(2, 4, 1), W(2, 14, 5), W(2, 8, 1), W(2, 12, 0)}

\* instr_15(1,0), long jump to E, then-words, long jump to J, else-words, rest
IfElseData(then, els, post) ==
    <<W(1, 15, 0), LJ(Len(then) + 3)>> \o then \o <<LJ(Len(then) + 3 + Len(els))>> \o els \o post

InitIfElse ==
    \E then \in SeqsUpTo(IfWords, MaxBody), els \in SeqsUpTo(IfWords, MaxBody),
       post \in {<<>>, <<W(2, 4, 1)>>}, eager \in BOOLEAN :
        StartFrom([then |-> then, els |-> els, post |-> post],
                  ContainerOf(<<0>>, <<>>, FALSE, IfElseData(then, els, post)), eager)

SpecIfElse == InitIfElse /\ [][NextRoundTrip]_vars

NonBlank(lines) == SelectSeq(lines, LAMBDA ln : ln.k # "blank")

IsJumpLine(ln) == ln.k = "ifnot" \/ (ln.k = "instr" /\ ln.v[1] = InstrName(0))

\* 'if cond:', an indented then-body, 'else:', an indented else-body, the
\* rest of the program, and no line that prints a jump
PrintedAsIfElse(lines) ==
    LET L == NonBlank(lines)
    IN  /\ Len(L) >= 5
        /\ L[4] = IfLine(0)
        /\ \E j \in 5 .. Len(L) - 1 :
                /\ L[j] = ElseLine(0)
                /\ \A k \in 5 .. j - 1 : L[k].ind = 1
                /\ L[j + 1].ind = 1
                /\ \A k \in j + 1 .. Len(L) : L[k].k \notin {"if", "else"}
        /\ \A k \in 1 .. Len(L) : ~IsJumpLine(L[k])

\* both long jumps are back in place with their targets
JumpsRestored(data) ==
    /\ Len(data) >= Len(input.then) + 3
    /\ data[2] = LJ(Len(input.then) + 3)
    /\ data[Len(input.then) + 3] = LJ(Len(input.then) + 3 + Len(input.els))

\* C9: the words instr_15(1,0), long jump E, then-words, long jump J,
\* else-words (E the PC after the second long jump, J the PC after the
\* else-words) are printed as if cond: / then-body / else: / else-body with
\* neither long jump printed, and compiling that text restores both long
\* jumps with their targets.  Stated for then-words and else-words that are
\* whole instructions, else-words not empty, and for the texts that
\* decompile returns.
IfElseRoundTrip ==
    (text.ok /\ input.els # <<>>) =>
        /\ PrintedAsIfElse(text.lines)
        /\ phase = "compiled" =>
                out_bytes.ok /\ JumpsRestored(_parse_emc2(out_bytes.bytes).data)

\* an if/else was printed and compiled, and a long jump has another target
IfElseJumpMoved ==
    /\ phase = "compiled"
    /\ input.els # <<>>
    /\ PrintedAsIfElse(text.lines)
    /\ out_bytes.ok
    /\ ~JumpsRestored(_parse_emc2(out_bytes.bytes).data)

-----------------------------------------------------------------------------
(* Structured sources: compile, then decompile *)

MaxDepth == 2

PushLine == InstrLine(0, InstrName(4), 2, Hex(1, 2))
ElifLine == Line(0, "elif", <<>>)

\* a suite, one level deeper
Indented(lines) == [i \in 1 .. Len(lines) |-> [lines[i] EXCEPT !.ind = @ + 1]]

\* the if statements whose suites come from S
IfStatements(S) ==
    {<<IfLine(0)>> \o Indented(t) : t \in S}
    \cup {<<IfLine(0)>> \o Indented(t) \o <<ElseLine(0)>> \o Indented(e) : t \in S, e \in S}
    \cup {<<IfLine(0)>> \o Indented(t) \o <<ElifLine>> \o Indented(u) : t \in S, u \in S}
    \cup {<<IfLine(0)>> \o Indented(t) \o <<ElifLine>> \o Indented(u) \o <<ElseLine(0)>> \o Indented(e) :
            t \in S, u \in S, e \in {<<PushLine>>}}

\* the suites nested at most d deep: a push, an if statement, or the two in a row
RECURSIVE Suites(_)
Suites(d) ==
    IF d = 0 THEN {<<PushLine>>}
    ELSE LET S == Suites(d - 1)
             ifs == IfStatements(S)
         IN  S \cup ifs \cup {f \o <<PushLine>> : f \in ifs} \cup {<<PushLine>> \o f : f \in ifs}

\* a hand-written source around a suite
SourceOf(suite) ==
    <<Line(0, "strings_empty", <<>>), Blank, Line(0, "globals", <<Name("global", 0)>>), Blank,
      LabelLine(0, Name("global", 0))>> \o suite

InitDesugar ==
    \E suite \in Suites(MaxDepth), eager \in BOOLEAN :
        /\ phase = "source"
        /\ input = [suite |-> suite]
        /\ buf = <<>>
        /\ form = Unset
        /\ text = [ok |-> TRUE, lines |-> SourceOf(suite)]
        /\ out_bytes = Unset
        /\ text2 = Unset
        /\ annotations_evaluated = eager

\* out_bytes = compile(text), text a hand-written source
CompileSource ==
    /\ phase = "source"
    /\ phase' = "compiled"
    /\ out_bytes' = compile(text.lines)
    /\ UNCHANGED <<input, buf, form, text, text2, annotations_evaluated>>

NextDesugar == CompileSource \/ Redecompile

SpecDesugar == InitDesugar /\ [][NextDesugar]_vars

\* C10: compiling a source with nested if / elif / else suites and
\* decompiling the result prints the same nesting of if / elif / else blocks
\* with the same bodies (no if_else_N or if_end_N label and no raw ifnot or
\* jmp line remains), also when an if without else is the last statement of
\* an enclosing suite.
StructuredRoundTrip ==
    /\ phase = "compiled" => out_bytes.ok
    /\ phase = "redecompiled" =>
            /\ text2.ok
            /\ NonBlank(text2.lines) = NonBlank(text.lines)

\* a source whose last statement is an if without else went through both steps
IfWithoutElseLast ==
    /\ phase = "redecompiled"
    /\ text2.ok
    /\ input.suite = <<IfLine(0)>> \o Indented(<<PushLine>>)
    /\ \E i \in 1 .. Len(text2.lines) : IsJumpLine(text2.lines[i])

-----------------------------------------------------------------------------
(* Native-call statements: compile, then decompile *)

MaxArgs == 3

\* 'Hello, traveler!'
HelloTraveler == <<72, 101, 108, 108, 111, 44, 32, 116, 114, 97, 118, 101, 108, 101, 114, 33>>

\* 'hello_traveler'
HelloTravelerSlug == <<104, 101, 108, 108, 111, 95, 116, 114, 97, 118, 101, 108, 101, 114>>

AccToken == Ident(<<"acc", <<>>>>)

\* the argument expressions of the statements
ArgExprs ==
    {Hex(1, 2), Ident(TextKey(0)), Ex("u16", <<Hex(179, 4)>>), AccToken,
     Ex("not", <<Hex(1, 2)>>), Ex("add", <<Hex(1, 2), Hex(2, 2)>>)}

CallNames == {<<"speak", <<>>>>, <<"tell", <<>>>>, <<"title", <<>>>>, Name("call", 1), Name("call", 5)}

CallStrings == {<<>>, <<HelloTraveler>>, <<<<116>>, HelloTraveler>>}

\* a hand-written strings block with the default keys
DefaultStrings(strings) ==
    IF strings = <<>> THEN <<Line(0, "strings_empty", <<>>)>>
    ELSE <<Line(0, "strings_open", <<>>)>>
         \o [i \in 1 .. Len(strings) |-> Line(1, "str", <<TextKey(i - 1), _quote_string(strings[i])>>)]
         \o <<Line(0, "strings_close", <<>>)>>

\* a source that holds the one statement
StatementSource(strings, stmt) ==
    DefaultStrings(strings) \o <<Blank, Line(0, "globals", <<>>), Blank, stmt>>

InitCallSugar ==
    \E name \in CallNames, args \in SeqsUpTo(ArgExprs, MaxArgs), strings \in CallStrings, eager \in BOOLEAN :
        /\ phase = "source"
        /\ input = [name |-> name, args |-> args, strings |-> strings]
        /\ buf = <<>>
        /\ form = Unset
        /\ text = [ok |-> TRUE, lines |-> StatementSource(strings, SugarLine(0, name, args))]
        /\ out_bytes = Unset
        /\ text2 = Unset
        /\ annotations_evaluated = eager

SpecCallSugar == InitCallSugar /\ [][NextDesugar]_vars

\* the word of a lowered instruction
WordOf(p) == IF p.i = -2 THEN p.arg ELSE W(p.f, p.i, p.arg)

\* the words of one argument
ValueWords(x, strings) ==
    With(emit_value_expr(x, strings), LAMBDA r : [k \in 1 .. Len(r.ins) |-> WordOf(r.ins[k])])

\* the source strings as the parser keeps them: key and value
KeyedStrings(strings) == [i \in 1 .. Len(strings) |-> <<TextKey(i - 1), strings[i]>>]

\* the words of a1..an in order, then call(2, ID), then instr_12(2, n)
StatementWords(name, args, strings) ==
    Flatten([k \in 1 .. Len(args) |-> ValueWords(args[k], KeyedStrings(strings))])
        \o <<W(2, 14, CallTarget(name)), W(2, 12, Len(args))>>

\* the keys of the printed strings block, in order
PrintedKeys(lines) ==
    LET strs == SelectSeq(lines, LAMBDA ln : ln.k = "str")
    IN  [i \in 1 .. Len(strs) |-> strs[i].v[1]]

\* the printed statements: what follows the strings and globals header
Statements(lines) ==
    SelectSeq(lines, LAMBDA ln : ln.k \notin {"blank", "strings_empty", "strings_open", "str",
                                              "strings_close", "globals"})

\* an argument as the decompiler spells it: a key is the i8 index it stands for
PrintedArg(x, strings) ==
    IF IsIdent(x) /\ x # AccToken THEN Hex(StringIndex(KeyedStrings(strings), x[2]), 2) ELSE x

\* the statement as printed: the alias of the call, and the final i8 argument
\* of speak / tell that indexes TEXT shown as the printed key of that index
PrintedStatement(name, args, strings, keys) ==
    LET shown == [k \in 1 .. Len(args) |-> PrintedArg(args[k], strings)]
        last == shown[Len(args)]
    IN  SugarLine(0, _native_call_symbol(CallTarget(name)),
            IF /\ CallTarget(name) \in {1, 52}
               /\ args # <<>>
               /\ IsNum(last)
               /\ NumVal(last) < Len(strings)
            THEN [shown EXCEPT ![Len(args)] = Ident(keys[NumVal(last) + 1])]
            ELSE shown)

\* C11: a statement call_ID(a1..an) (or speak / tell / title) lowers to the
\* words of a1..an in order, then call(2, ID), then instr_12(2, n), and
\* decompiling those words prints that single statement again, the final i8
\* argument of speak / tell shown as the text key of that TEXT index.
CallSugarRoundTrip ==
    /\ (phase # "source" /\ out_bytes.ok) =>
            _parse_emc2(out_bytes.bytes).data = StatementWords(input.name, input.args, input.strings)
    /\ phase = "redecompiled" =>
            /\ text2.ok
            /\ Statements(text2.lines) =
                   <<PrintedStatement(input.name, input.args, input.strings, PrintedKeys(text2.lines))>>

\* speak(0x01, 0x01, s000) on a TEXT whose string 0 is 'Hello, traveler!' was
\* compiled and printed again with the key s_hello_traveler
SpeakKeyPrinted ==
    /\ phase = "redecompiled"
    /\ text2.ok
    /\ input.name = <<"speak", <<>>>>
    /\ input.args = <<Hex(1, 2), Hex(1, 2), Ident(TextKey(0))>>
    /\ input.strings = <<HelloTraveler>>
    /\ Statements(text2.lines) =
           <<SugarLine(0, <<"speak", <<>>>>, <<Hex(1, 2), Hex(1, 2), Ident(SlugKey(HelloTravelerSlug))>>)>>

(* The title caption *)

MaxTitleIndex == 3

\* 'title'
TitleSlug == <<116, 105, 116, 108, 101>>

\* push16(0x00B3), i8 push of index k, call(2, 139), instr_12(2, 2)
TitleWords(k) == <<W(1, 3, 0), 179, W(2, 4, k), W(2, 14, 139), W(2, 12, 2)>>

\* a TEXT of n strings 'a' whose string k is the caption
TitleStrings(n, k, caption) == [i \in 1 .. n |-> IF i = k + 1 THEN caption ELSE <<97>>]

InitTitle ==
    \E k \in 0 .. MaxTitleIndex, extra \in 0 .. 1, caption \in {<<116>>, HelloTraveler},
       post \in {<<>>, <<W(2, 8, 1)>>}, eager \in BOOLEAN :
        StartFrom([k |-> k, strings |-> TitleStrings(k + 1 + extra, k, caption), post |-> post],
                  ContainerOf(<<0>>, TitleStrings(k + 1 + extra, k, caption), TRUE, TitleWords(k) \o post),
                  eager)

SpecTitle == InitTitle /\ [][NextRoundTrip]_vars

\* the title statement with the given last argument
TitleLine(last) == SugarLine(0, <<"title", <<>>>>, <<Ex("u16", <<Hex(179, 4)>>), last>>)

HasLine(lines, ln) == \E i \in 1 .. Len(lines) : lines[i] = ln

\* C12: for the words push16(0x00B3), i8 push of index k, call(2, 139),
\* instr_12(2, 2), decompile renames the key of strings[k] to s_title and
\* prints title(u16(0x00b3), s_title); compiling the text reproduces the words.
TitleCaptionRoundTrip ==
    /\ phase # "start" =>
            /\ text.ok
            /\ PrintedKeys(text.lines)[input.k + 1] = SlugKey(TitleSlug)
            /\ HasLine(text.lines, TitleLine(Ident(SlugKey(TitleSlug))))
    /\ phase \in {"compiled", "redecompiled"} =>
            /\ out_bytes.ok
            /\ out_bytes.bytes = buf

\* what the code does: the key is renamed in the strings block, the call
\* keeps the index as a number, and the words are reproduced
TitleIndexPrinted ==
    /\ phase = "compiled"
    /\ input.k = 3
    /\ PrintedKeys(text.lines)[4] = SlugKey(TitleSlug)
    /\ HasLine(text.lines, TitleLine(Hex(3, 2)))
    /\ out_bytes.ok
    /\ out_bytes.bytes = buf

-----------------------------------------------------------------------------
(* Jumps to the end of DATA *)

MaxEnd == 4

\* for a program of n words: condition marker, long and short jmp to n, a
\* long jmp to n - 1, push
EndWords(n) == {W(1, 15, 0), LJ(n), W(2, 0, n), LJ(n - 1), W(2, 4, 1)}

InitEndJump ==
    \E n \in 1 .. MaxEnd, eager \in BOOLEAN :
        \E data \in [1 .. n -> EndWords(n)], order \in {<<0>>, <<0, n>>} :
            StartFrom([order |-> order, strings |-> <<>>, text_present |-> FALSE, data |-> data],
                      ContainerOf(order, <<>>, FALSE, data), eager)

SpecEndJump == InitEndJump /\ [][NextRoundTrip]_vars

\* the executed jmp words whose target is len(data)
EndJmps(data) ==
    {p \in ExecutedPcs(data).executed_pcs :
        _decode_word(At(data, p)).instr = 0 /\ _decode_word(At(data, p)).arg = Len(data)}

\* the lines that print a jmp to the label of len(data)
EndJmpLines(lines) ==
    {i \in 1 .. Len(lines) :
        /\ lines[i].k = "instr"
        /\ lines[i].v[1] = InstrName(0)
        /\ IsIdent(lines[i].v[3])
        /\ LabelPc(lines[i].v[3][2]) = Len(form.data)}

\* the label named on line i is defined by a label line that no instruction line follows
DefinedAtEnd(lines, i) ==
    \E d \in LabelDefs(lines) :
        /\ lines[d].v[1] = lines[i].v[3][2]
        /\ \A j \in d .. Len(lines) : lines[j].k \in {"label", "blank"}

\* the operand words of a condition marker that are printed on a jmp line of
\* their own with the label of len(data): short jmp words
EndOperandJmps(data) ==
    {p \in ExecutedPcs(data).ifnot_operand_pcs :
        LET op == _decode_word(At(data, p)) IN ~op.long /\ op.instr = 0 /\ op.arg = Len(data)}

\* each jmp of ps is printed on a line of its own with the end label, and
\* compile puts the same jmp words at the same indices of a DATA of the same length
EndJmpsPrinted(ps) ==
    /\ (phase # "start" /\ ps # {}) =>
            /\ text.ok
            /\ Cardinality(EndJmpLines(text.lines)) = Cardinality(ps) + Cardinality(EndOperandJmps(input.data))
            /\ \A i \in EndJmpLines(text.lines) : DefinedAtEnd(text.lines, i)
    /\ (phase \in {"compiled", "redecompiled"} /\ ps # {}) =>
            /\ out_bytes.ok
            /\ Len(_parse_emc2(out_bytes.bytes).data) = Len(input.data)
            /\ \A p \in ps : At(_parse_emc2(out_bytes.bytes).data, p) = At(input.data, p)

EndJoinHidden ==
    /\ phase = "compiled"
    /\ input.data = <<W(1, 15, 0), LJ(3), LJ(4), W(2, 4, 1)>>
    /\ EndJmpLines(text.lines) = {}
    /\ _parse_emc2(out_bytes.bytes).data = input.data

-----------------------------------------------------------------------------
(* Hand-written strings blocks *)

MaxEntries == 3

\* a hand-written source in front of compile
StartSource(in, lines, eager) ==
    /\ phase = "source"
    /\ input = in
    /\ buf = <<>>
    /\ form = Unset
    /\ text = [ok |-> TRUE, lines |-> lines]
    /\ out_bytes = Unset
    /\ text2 = Unset
    /\ annotations_evaluated = eager

\* s000, s001, s_a
BlockKeys == {TextKey(0), TextKey(1), SlugKey(<<97>>)}

\* 'a', 'b'
BlockValues == {<<97>>, <<98>>}

\* strings = { key: 'value', ... } with the entries in order, then an empty globals line
StringsSource(entries) ==
    (IF entries = <<>> THEN <<Line(0, "strings_empty", <<>>)>>
     ELSE <<Line(0, "strings_open", <<>>)>>
          \o [i \in 1 .. Len(entries) |-> Line(1, "str", <<entries[i][1], _quote_string(entries[i][2])>>)]
          \o <<Line(0, "strings_close", <<>>)>>)
    \o <<Blank, Line(0, "globals", <<>>)>>

InitStrings ==
    \E entries \in SeqsUpTo(BlockKeys \X BlockValues, MaxEntries), eager \in BOOLEAN :
        StartSource([entries |-> entries], StringsSource(entries), eager)

SpecStrings == InitStrings /\ [][NextDesugar]_vars

\* the block uses a key twice
HasDuplicateKey(entries) ==
    \E i, j \in 1 .. Len(entries) : i < j /\ entries[i][1] = entries[j][1]

\* C14: a strings block that uses the same key twice is rejected by compile
\* with an error; no container is produced in which one of the two entries
\* is dropped or overwritten.
DuplicateKeyRejected ==
    (phase # "source" /\ HasDuplicateKey(input.entries)) => ~out_bytes.ok

\* s000: 'a', s000: 'b' was compiled to a container whose TEXT holds 'b' only
DuplicateKeyOverwritten ==
    /\ phase = "compiled"
    /\ input.entries = <<<<TextKey(0), <<97>>>>, <<TextKey(0), <<98>>>>>>
    /\ out_bytes.ok
    /\ _parse_emc2(out_bytes.bytes).strings = <<<<98>>>>

-----------------------------------------------------------------------------
(* Label definitions and references in a hand-written source *)

MaxStmts == 3

LabelA == <<"a", <<>>>>
LabelB == <<"b", <<>>>>

\* label a / a: / label b / jumps and ifnot lines that name a or b / a push
ResolveLines ==
    {LabelLine(0, LabelA), Line(0, "name_colon", <<LabelA>>), LabelLine(0, LabelB),
     InstrLine(0, InstrName(0), 4, Ident(LabelA)), InstrLine(0, InstrName(0), 2, Ident(LabelB)),
     IfnotLine(0, Ident(LabelA)), IfnotLine(0, Ident(LabelB)),
     InstrLine(0, InstrName(4), 2, Hex(1, 2))}

InitResolve ==
    \E stmts \in SeqsUpTo(ResolveLines, MaxStmts), globals \in {<<>>, <<LabelA>>, <<LabelB, LabelA>>},
       eager \in BOOLEAN :
        StartSource([stmts |-> stmts, globals |-> globals],
                    <<Line(0, "strings_empty", <<>>), Blank, Line(0, "globals", globals), Blank>> \o stmts,
                    eager)

SpecResolve == InitResolve /\ [][NextDesugar]_vars

\* the number of words a statement emits
WordCount(ln) == IF ln.k \in {"label", "name_colon"} THEN 0 ELSE IF ln.k = "ifnot" THEN 2 ELSE 1

RECURSIVE WordsBefore(_, _)
\* the PC of the next word emitted at statement i
WordsBefore(stmts, i) == IF i <= 1 THEN 0 ELSE WordsBefore(stmts, i - 1) + WordCount(stmts[i - 1])

\* the statements that define name
DefsOf(stmts, name) == {i \in 1 .. Len(stmts) : stmts[i].k \in {"label", "name_colon"} /\ stmts[i].v[1] = name}

\* the name a jmp or ifnot statement refers to
RefOf(ln) == IF ln.k = "ifnot" THEN ln.v[2][2] ELSE ln.v[3][2]

\* the jmp and ifnot statements with a label argument
RefStmts(stmts) ==
    {i \in 1 .. Len(stmts) :
        \/ stmts[i].k = "ifnot" /\ IsIdent(stmts[i].v[2])
        \/ stmts[i].k = "instr" /\ stmts[i].v[1] = InstrName(0) /\ IsIdent(stmts[i].v[3])}

\* the names referenced by statements and by the globals line
RefNames(stmts, globals) ==
    {RefOf(stmts[i]) : i \in RefStmts(stmts)} \cup {globals[k] : k \in 1 .. Len(globals)}

\* the PC of the one definition of name
DefPc(stmts, name) == WordsBefore(stmts, CHOOSE i \in DefsOf(stmts, name) : TRUE)

\* the word of a jmp or ifnot operand that targets t
TargetWord(ln, t) ==
    IF ln.k = "ifnot" \/ NumVal(ln.v[2]) = 4 THEN 32768 + t ELSE W(NumVal(ln.v[2]), 0, t)

IllDefined(stmts, globals) ==
    \/ \E name \in {LabelA, LabelB} : Cardinality(DefsOf(stmts, name)) > 1
    \/ \E name \in RefNames(stmts, globals) : DefsOf(stmts, name) = {}

\* C15: a label defined by 'label name' or 'name:' takes the PC of the next
\* emitted word; a jmp, an ifnot or a globals entry may name a label defined
\* later and resolves to that PC; a name defined twice or a reference to a
\* name never defined makes compile fail with no bytes returned.
LabelResolution ==
    phase # "source" =>
        IF IllDefined(input.stmts, input.globals) THEN ~out_bytes.ok
        ELSE /\ out_bytes.ok
             /\ LET f == _parse_emc2(out_bytes.bytes)
                IN  /\ Len(f.data) = WordsBefore(input.stmts, Len(input.stmts) + 1)
                    /\ \A i \in RefStmts(input.stmts) :
                          At(f.data, WordsBefore(input.stmts, i) + (IF input.stmts[i].k = "ifnot" THEN 1 ELSE 0))
                              = TargetWord(input.stmts[i], DefPc(input.stmts, RefOf(input.stmts[i])))
                    /\ f.order = [k \in 1 .. Len(input.globals) |-> DefPc(input.stmts, input.globals[k])]

\* jmp(4, a) / push / a: with globals = [a]: the forward reference and the
\* globals entry resolve to PC 2 = len(data)
ForwardReferenceResolved ==
    /\ phase = "compiled"
    /\ input.stmts = <<InstrLine(0, InstrName(0), 4, Ident(LabelA)), InstrLine(0, InstrName(4), 2, Hex(1, 2)),
                       Line(0, "name_colon", <<LabelA>>)>>
    /\ input.globals = <<LabelA>>
    /\ out_bytes.ok
    /\ _parse_emc2(out_bytes.bytes).data = <<LJ(2), W(2, 4, 1)>>
    /\ _parse_emc2(out_bytes.bytes).order = <<2>>

-----------------------------------------------------------------------------
(* leave N and return *)

\* a return line with a trailing , drop(N)
ReturnDropLine(indent, expr, n) == Line(indent, "return", <<expr, NoHint, Hex(n, 2)>>)

\* leave 2 / return acc / return 0x05 / the same with , drop(1) / label a / push
LeaveLines ==
    {LeaveLine(0, 2), ReturnLine(0, AccToken), ReturnLine(0, Hex(5, 2)),
     ReturnDropLine(0, AccToken, 1), ReturnDropLine(0, Hex(5, 2), 1),
     LabelLine(0, LabelA), InstrLine(0, InstrName(4), 2, Hex(1, 2))}

InitLeave ==
    \E stmts \in SeqsUpTo(LeaveLines, MaxStmts), eager \in BOOLEAN :
        StartSource([stmts |-> stmts],
                    <<Line(0, "strings_empty", <<>>), Blank, Line(0, "globals", <<>>), Blank>> \o stmts,
                    eager)

SpecLeave == InitLeave /\ [][NextDesugar]_vars

IsLeave(ln) == ln.k = "leave"
HasDrop(ln) == ln.k = "return" /\ Len(ln.v) = 3

\* a leave that is not directly followed by a return
LeaveWithoutReturn(stmts) ==
    \E i \in 1 .. Len(stmts) : IsLeave(stmts[i]) /\ (i = Len(stmts) \/ stmts[i + 1].k # "return")

\* a return with both a preceding leave and a trailing drop
LeaveAndDrop(stmts) ==
    \E i \in 1 .. Len(stmts) - 1 : IsLeave(stmts[i]) /\ HasDrop(stmts[i + 1])

\* the words of statement i: the cleanup instr_12(2, N) of a leave or drop
\* goes right before the final ret
LeaveWords(stmts, i) ==
    LET ln == stmts[i]
        cleanup == IF HasDrop(ln) THEN <<W(2, 12, NumVal(ln.v[3]))>>
                   ELSE IF i > 1 /\ IsLeave(stmts[i - 1]) THEN <<W(2, 12, NumVal(stmts[i - 1].v[1]))>>
                   ELSE <<>>
    IN  IF ln.k = "return"
        THEN (IF ln.v[1] = AccToken THEN <<>> ELSE <<W(2, 4, NumVal(ln.v[1])), W(2, 8, 0)>>)
             \o cleanup \o <<W(2, 8, 1)>>
        ELSE IF ln.k = "instr" THEN <<W(2, 4, 1)>>
        ELSE <<>>

\* C16: leave N is accepted only when the very next statement is return:
\* any other statement (a label definition included) or the end of input
\* after leave N makes compile fail, and so does a return that has both a
\* preceding leave N and a trailing , drop(M).  A leave directly before a
\* return without drop is accepted and puts instr_12(2, N) before the ret
\* (in a source that defines no label twice).
LeaveOnlyBeforeReturn ==
    phase # "source" =>
        IF LeaveWithoutReturn(input.stmts) \/ LeaveAndDrop(input.stmts) THEN ~out_bytes.ok
        ELSE ~IllDefined(input.stmts, <<>>) =>
                /\ out_bytes.ok
                /\ _parse_emc2(out_bytes.bytes).data =
                       Flatten([i \in 1 .. Len(input.stmts) |-> LeaveWords(input.stmts, i)])

\* push / leave 2 / return acc was compiled to push, instr_12(2, 2), ret
LeaveCompiled ==
    /\ phase = "compiled"
    /\ input.stmts = <<InstrLine(0, InstrName(4), 2, Hex(1, 2)), LeaveLine(0, 2), ReturnLine(0, AccToken)>>
    /\ out_bytes.ok
    /\ _parse_emc2(out_bytes.bytes).data = <<W(2, 4, 1), W(2, 12, 2), W(2, 8, 1)>>

\* leave 2 / label a / return acc was rejected
LeaveBeforeLabelRejected ==
    /\ phase = "compiled"
    /\ input.stmts = <<LeaveLine(0, 2), LabelLine(0, LabelA), ReturnLine(0, AccToken)>>
    /\ ~out_bytes.ok

-----------------------------------------------------------------------------
(* The TEXT pragma *)

MaxComments == 2

\* comment lines and what each says about TEXT: the two pragmas, and two
\* comments that are no pragma: '# text: presently', '#text: absent'
CommentTexts ==
    {[chars |-> TextPresentPragma, says |-> "present"],
     [chars |-> TextAbsentPragma, says |-> "absent"],
     [chars |-> <<35, 32, 116, 101, 120, 116, 58, 32, 112, 114, 101, 115, 101, 110, 116, 108, 121>>, says |-> "none"],
     [chars |-> <<35, 116, 101, 120, 116, 58, 32, 97, 98, 115, 101, 110, 116>>, says |-> "none"]}

CommentLines(cs) == [i \in 1 .. Len(cs) |-> Line(0, "comment", <<cs[i].chars>>)]

\* comments, the strings block, globals, comments, a push
PragmaSource(before, strings, after) ==
    CommentLines(before) \o DefaultStrings(strings) \o <<Blank, Line(0, "globals", <<>>), Blank>>
        \o CommentLines(after) \o <<InstrLine(0, InstrName(4), 2, Hex(1, 2))>>

InitPragma ==
    \E before \in SeqsUpTo(CommentTexts, MaxComments), after \in SeqsUpTo(CommentTexts, MaxComments),
       strings \in {<<>>, <<<<97>>>>}, eager \in BOOLEAN :
        StartSource([comments |-> before \o after, strings |-> strings],
                    PragmaSource(before, strings, after), eager)

SpecPragma == InitPragma /\ [][NextDesugar]_vars

\* the pragma lines among the comments, in source order
Pragmas(cs) == SelectSeq(cs, LAMBDA c : c.says # "none")

\* C17: the compiled container has a TEXT chunk iff the last
\* '# text: present' / '# text: absent' pragma line of the source says
\* present, or, when the source has no pragma line, iff strings is non-empty.
TextChunkFollowsPragma ==
    phase # "source" =>
        /\ out_bytes.ok
        /\ _parse_emc2(out_bytes.bytes).text_present
              <=> IF Pragmas(input.comments) = <<>> THEN input.strings # <<>>
                  ELSE Pragmas(input.comments)[Len(Pragmas(input.comments))].says = "present"

\* '# text: present', then '# text: absent', in a source with one string:
\* the container has no TEXT chunk
LastPragmaAbsent ==
    /\ phase = "compiled"
    /\ input.strings = <<<<97>>>>
    /\ Len(input.comments) = 2
    /\ input.comments[1].says = "present"
    /\ input.comments[2].says = "absent"
    /\ out_bytes.ok
    /\ ~_parse_emc2(out_bytes.bytes).text_present

-----------------------------------------------------------------------------
(* The PAK archive: package.decode *)

\* int.from_bytes(bs, 'little')
RECURSIVE FromBytesLE(_)
FromBytesLE(bs) == IF bs = <<>> THEN 0 ELSE Head(bs) + 256 * FromBytesLE(Tail(bs))

\* data.find(b'\x00', i): the 0-based index of the first zero byte at or after i, or -1
FindNul(data, i) ==
    IF \E j \in (i + 1) .. Len(data) : data[j] = 0
    THEN (CHOOSE j \in (i + 1) .. Len(data) : data[j] = 0 /\ \A q \in (i + 1) .. (j - 1) : data[q] # 0) - 1
    ELSE -1

RECURSIVE ReadHeader(_, _, _, _)
\* the while loop of decode: offsets and names up to the zero offset or the end of data
ReadHeader(data, i, offsets, names) ==
    IF i >= Len(data) THEN [ok |-> TRUE, i |-> i, offsets |-> offsets, names |-> names]
    ELSE IF i + 4 > Len(data) THEN Fail("AssertionError")
    ELSE With(FromBytesLE(Slice(data, i, i + 4)), LAMBDA offset :
         IF offset = 0 THEN [ok |-> TRUE, i |-> i + 4, offsets |-> offsets, names |-> names]
         ELSE With(FindNul(data, i + 4), LAMBDA name_end :
              IF name_end = -1 THEN Fail("AssertionError")
              ELSE IF ~IsAscii(Slice(data, i + 4, name_end)) THEN Fail("UnicodeDecodeError")
              ELSE ReadHeader(data, name_end + 1, Append(offsets, offset),
                              Append(names, Slice(data, i + 4, name_end)))))

RECURSIVE ZipDict(_, _, _, _)
\* dict(zip(names, chunks)): a repeated name keeps its place and takes the later chunk
ZipDict(names, chunks, j, d) ==
    IF j > Min(Len(names), Len(chunks)) THEN d
    ELSE ZipDict(names, chunks, j + 1, DictPut(d, names[j], chunks[j]))

\* the dict as a sequence of <<name, chunk>>, or ok = FALSE when decode raises
decode(data) ==
    With(ReadHeader(data, 0, <<>>, <<>>), LAMBDA h :
    IF ~h.ok THEN h ELSE
    With(Append(h.offsets, Len(data)), LAMBDA offsets :
    IF h.i # offsets[1] THEN Fail("Header size mismatch")
    ELSE IF ~IsSorted(offsets) THEN Fail("AssertionError")
    ELSE LET sizes == [j \in 1 .. Len(offsets) - 1 |-> offsets[j + 1] - offsets[j]]
             chunks == [j \in 1 .. Len(sizes) |-> Slice(data, offsets[j], offsets[j] + sizes[j])]
         IN  [ok |-> TRUE, content |-> ZipDict(h.names, chunks, 1, <<>>)]))

MaxFiles == 2
MaxPayload == 3
MaxOffset == 18

\* 'A', 'B'
FileNames == {<<65>>, <<66>>}

\* u32 little-endian
U32LE(x) == <<x % 256, (x \div 256) % 256, (x \div 65536) % 256, (x \div 16777216) % 256>>

\* the header of the entries, with the zero terminator when term holds
HeaderBytes(entries, term) ==
    Flatten([j \in 1 .. Len(entries) |-> U32LE(entries[j][1]) \o entries[j][2] \o <<0>>])
        \o (IF term THEN U32LE(0) ELSE <<>>)

InitPak ==
    \E entries \in SeqsUpTo((1 .. MaxOffset) \X FileNames, MaxFiles), term \in BOOLEAN,
       payload \in SeqsUpTo({1, 2}, MaxPayload) :
        /\ phase = "archive"
        /\ input = [entries |-> entries, term |-> term, payload |-> payload]
        /\ buf = HeaderBytes(entries, term) \o payload
        /\ form = Unset
        /\ text = Unset
        /\ out_bytes = Unset
        /\ text2 = Unset
        /\ annotations_evaluated = FALSE

\* form = package.decode(buf)
Unpack ==
    /\ phase = "archive"
    /\ phase' = "unpacked"
    /\ form' = decode(buf)
    /\ UNCHANGED <<input, buf, text, out_bytes, text2, annotations_evaluated>>

NextPak == Unpack

SpecPak == InitPak /\ [][NextPak]_vars

\* o_i of the header, and o_(k+1) = len(data)
OffsetAt(i) == IF i <= Len(input.entries) THEN input.entries[i][1] ELSE Len(buf)

\* the chunk the decoded dict holds under a name
ChunkOf(content, name) == (CHOOSE j \in 1 .. Len(content) : content[j][1] = name)
HasFile(content, name) == \E j \in 1 .. Len(content) : content[j][1] = name

\* C18: for an archive whose header lists the offsets o_1..o_k before the
\* zero terminator, decode accepts only if o_1 equals the number of header
\* bytes read (terminator included) and o_1 <= ... <= o_k <= len(data), and
\* then maps the i-th name to data[o_i : o_(i+1)], o_(k+1) = len(data).
PakChunksByOffset ==
    (phase = "unpacked" /\ input.term /\ input.entries # <<>> /\ form.ok) =>
        /\ OffsetAt(1) = Len(HeaderBytes(input.entries, TRUE))
        /\ \A i \in 1 .. Len(input.entries) : OffsetAt(i) <= OffsetAt(i + 1)
        /\ \A i \in 1 .. Len(input.entries) :
              /\ HasFile(form.content, input.entries[i][2])
              /\ form.content[ChunkOf(form.content, input.entries[i][2])][2]
                    = Slice(buf, OffsetAt(i), OffsetAt(i + 1))

\* the names of the header are distinct
DistinctNames ==
    \A i, j \in 1 .. Len(input.entries) : i # j => input.entries[i][2] # input.entries[j][2]

\* two files A and B of one and two bytes were decoded
TwoFilesDecoded ==
    /\ phase = "unpacked"
    /\ input.term
    /\ input.entries = <<<<16, <<65>>>>, <<17, <<66>>>>>>
    /\ input.payload = <<1, 2, 2>>
    /\ form.ok
    /\ form.content = <<<<<<65>>, <<1>>>>, <<<<66>>, <<2, 2>>>>>>

\* two entries named A: the dict holds one file, the chunk of the second entry
RepeatedNameDropped ==
    /\ phase = "unpacked"
    /\ input.term
    /\ input.entries = <<<<16, <<65>>>>, <<17, <<65>>>>>>
    /\ input.payload = <<1, 2, 2>>
    /\ form.ok
    /\ form.content = <<<<<<65>>, <<2, 2>>>>>>

-----------------------------------------------------------------------------
(* The word codec *)

\* DATA words are 16 bits wide
WordBits == 16

InitCodec ==
    \E w \in 0 .. (2 ^ WordBits - 1) :
        /\ phase = "word"
        /\ input = [w |-> w]
        /\ buf = <<>>
        /\ form = Unset
        /\ text = Unset
        /\ out_bytes = Unset
        /\ text2 = Unset
        /\ annotations_evaluated = FALSE

\* form = _decode_word(w)
DecodeWord ==
    /\ phase = "word"
    /\ phase' = "decoded_word"
    /\ form' = _decode_word(input.w)
    /\ UNCHANGED <<input, buf, text, out_bytes, text2, annotations_evaluated>>

\* out_bytes = the word that the lowerer emits for (flags, instr, arg)
EncodeWord ==
    /\ phase = "decoded_word"
    /\ phase' = "encoded_word"
    /\ out_bytes' = [ok |-> TRUE, word |-> encode_word(form.flags, form.instr, form.arg)]
    /\ UNCHANGED <<input, buf, form, text, text2, annotations_evaluated>>

NextCodec == DecodeWord \/ EncodeWord

SpecCodec == InitCodec /\ [][NextCodec]_vars

\* C19: for every 16-bit word w, decoding w (bit 15 set gives flags 4,
\* opcode 0, arg w & 0x7FFF, long; otherwise flags = (w >> 13) & 7,
\* opcode = (w >> 8) & 0x1F, arg = w & 0xFF) and encoding the result as the
\* lowerer does yields w again.
WordCodecInverse ==
    /\ phase # "word" =>
            form = IF input.w >= 2 ^ (WordBits - 1)
                   THEN [flags |-> 4, instr |-> 0, arg |-> input.w - 2 ^ (WordBits - 1), long |-> TRUE]
                   ELSE [flags |-> input.w \div 8192, instr |-> (input.w \div 256) % 32,
                         arg |-> input.w % 256, long |-> FALSE]
    /\ phase = "encoded_word" => out_bytes.word = input.w

\* the long jump 0x8123 and the short jmp word 0x4005 were both decoded and encoded again
LongJumpEncoded ==
    /\ phase = "encoded_word"
    /\ input.w \in {33059, 16389}
    /\ form.instr = 0
    /\ out_bytes.word = input.w

-----------------------------------------------------------------------------
(* Pass A on arbitrary word streams *)

MaxPcs == 5

\* push16 prefix, condition marker, opcodes 3 and 15 with flags 2, a long
\* jump, a long jump whose low bits read as a push16 prefix, a push
PassAWords == {W(1, 3, 0), W(1, 15, 0), W(2, 3, 0), W(2, 15, 0), LJ(1), LJ(W(1, 3, 0)), W(2, 4, 1)}

InitPassA ==
    \E data \in SeqsUpTo(PassAWords, MaxPcs) :
        /\ phase = "words"
        /\ input = [data |-> data]
        /\ buf = <<>>
        /\ form = Unset
        /\ text = Unset
        /\ out_bytes = Unset
        /\ text2 = Unset
        /\ annotations_evaluated = FALSE

\* form = the sets that pass A of decompile computes
Discover ==
    /\ phase = "words"
    /\ phase' = "discovered"
    /\ form' = ExecutedPcs(input.data)
    /\ UNCHANGED <<input, buf, text, out_bytes, text2, annotations_evaluated>>

NextPassA == Discover

SpecPassA == InitPassA /\ [][NextPassA]_vars

\* bit 15 clear, flags 1 and the given opcode, read from the bits of the word
HoldsOp(w, opcode) == w < 32768 /\ (w \div 8192) % 8 = 1 /\ (w \div 256) % 32 = opcode

\* C20: pass A partitions the PCs 0..len(data)-1: PC 0 is executed; a PC
\* p > 0 is non-executed exactly when p-1 is executed and holds a push16
\* word (opcode 3, flags 1) or an opcode-15/flags-1 word; ifnot_operand_pcs
\* is exactly the set of PCs that follow an executed opcode-15/flags-1 word,
\* and is disjoint from executed_pcs.
PassAPartition ==
    phase = "discovered" =>
        LET n == Len(input.data)
            ex == form.executed_pcs
        IN  /\ ex \subseteq 0 .. (n - 1)
            /\ n > 0 => 0 \in ex
            /\ \A p \in 1 .. (n - 1) :
                  p \notin ex <=> /\ (p - 1) \in ex
                                  /\ HoldsOp(At(input.data, p - 1), 3) \/ HoldsOp(At(input.data, p - 1), 15)
            /\ form.ifnot_operand_pcs =
                   {p \in 1 .. (n - 1) : (p - 1) \in ex /\ HoldsOp(At(input.data, p - 1), 15)}
            /\ form.ifnot_operand_pcs \cap ex = {}

\* marker, operand, push16 prefix, immediate, push: PCs 0, 2 and 4 are
\* executed and PC 1 is the ifnot operand
OperandsSkipped ==
    /\ phase = "discovered"
    /\ input.data = <<W(1, 15, 0), LJ(1), W(1, 3, 0), W(1, 15, 0), W(2, 4, 1)>>
    /\ form.executed_pcs = {0, 2, 4}
    /\ form.ifnot_operand_pcs = {1}

-----------------------------------------------------------------------------
(* Expression windows: parse_stack_exprs, then emit_value_expr *)

MaxWindow == 3

\* push16 prefix and an immediate, i8 pushes with opcode 3 and 4, var / arg /
\* local loads, acc, not, add, and words that end a window: ret and a long jump
FoldWords ==
    {W(1, 3, 0), 179, W(2, 3, 5), W(2, 4, 5), W(2, 5, 1), W(2, 6, 1), W(2, 7, 1), W(2, 2, 0),
     W(2, 16, 0), W(2, 17, 8), W(2, 8, 1), LJ(1)}

InitFold ==
    \E window \in SeqsUpTo(FoldWords, MaxWindow) :
        /\ phase = "window"
        /\ input = [window |-> window]
        /\ buf = <<>>
        /\ form = Unset
        /\ text = Unset
        /\ out_bytes = Unset
        /\ text2 = Unset
        /\ annotations_evaluated = FALSE

\* form = parse_stack_exprs(0, len(data)) on a DATA that is the window
FoldWindow ==
    /\ phase = "window"
    /\ phase' = "folded"
    /\ form' = StackExprs(Analyze([data |-> input.window, order |-> <<>>, strings |-> <<>>], TRUE, FALSE),
                          0, Len(input.window))
    /\ UNCHANGED <<input, buf, text, out_bytes, text2, annotations_evaluated>>

\* the words of the instructions that emit_value_expr appends for each rendered expression
LoweredWords(exprs) ==
    With(EmitArgs(exprs, <<>>), LAMBDA r :
        IF ~r.ok THEN r ELSE [ok |-> TRUE, words |-> [k \in 1 .. Len(r.ins) |-> WordOf(r.ins[k])]])

\* out_bytes = the words that lowering the rendered expressions emits
LowerWindow ==
    /\ phase = "folded"
    /\ form.ok
    /\ phase' = "lowered"
    /\ out_bytes' = LoweredWords(RenderAll(form.stack))
    /\ UNCHANGED <<input, buf, form, text, text2, annotations_evaluated>>

NextFold == FoldWindow \/ LowerWindow

SpecFold == InitFold /\ [][NextFold]_vars

\* C21: for every word window that parse_stack_exprs accepts, lowering the
\* rendered expressions in order emits exactly the words of that window.
FoldReversible ==
    phase = "lowered" => (out_bytes.ok /\ out_bytes.words = input.window)

\* the i8 push with opcode 3 was folded to 0x05 and lowered with opcode 4
Opcode3PushLowered ==
    /\ phase = "lowered"
    /\ input.window = <<W(2, 3, 5)>>
    /\ form.stack = <<<<"i8", 5>>>>
    /\ out_bytes.ok
    /\ out_bytes.words = <<W(2, 4, 5)>>

-----------------------------------------------------------------------------
(* Return-of-call windows *)

MaxPushes == 2

\* what follows the arguments: a native call, or the prologue and the long jump of a scripted call
CallHeads == {<<W(2, 14, 5)>>, <<W(2, 14, 1)>>, <<W(2, 2, 1), LJ(0)>>}

\* no cleanup word, or instr_12(2, n)
Cleanups(max) == {<<>>} \cup {<<W(2, 12, n)>> : n \in 0 .. max}

\* arguments, call, optional cleanup, ret
InitReturnCall ==
    \E args \in SeqsUpTo({W(2, 4, 1), W(2, 5, 1)}, MaxPushes), head \in CallHeads,
       cleanup \in Cleanups(MaxPushes), eager \in BOOLEAN :
        StartFrom([order |-> <<0>>, strings |-> <<>>, text_present |-> FALSE,
                   data |-> args \o head \o cleanup \o <<W(2, 8, 1)>>, cleanup |-> cleanup, head |-> head],
                  ContainerOf(<<0>>, <<>>, FALSE, args \o head \o cleanup \o <<W(2, 8, 1)>>), eager)

SpecReturnCall == InitReturnCall /\ [][NextRoundTrip]_vars

\* a line return NAME(args) whose NAME is a native call or a scripted function
IsReturnCall(ln) ==
    /\ ln.k = "return"
    /\ IsEx(ln.v[1])
    /\ CallTarget(ln.v[1][2]) # -1 \/ ln.v[1][2][1] = "func"

HasReturnCall(lines) == \E i \in 1 .. Len(lines) : IsReturnCall(lines[i])

\* C22: every word window that the decompiler folds into return call_ID(args)
\* or return func_E(args), with the cleanup word instr_12(2, n) present or
\* absent, is reproduced word for word by lowering that return statement.
ReturnCallReversible ==
    (phase = "compiled" /\ HasReturnCall(text.lines)) =>
        /\ out_bytes.ok
        /\ _parse_emc2(out_bytes.bytes).data = input.data

\* call(2, 5), ret was printed as return call_5() and compiled to three words
ReturnCallGainsCleanup ==
    /\ phase = "compiled"
    /\ input.data = <<W(2, 14, 5), W(2, 8, 1)>>
    /\ HasLine(text.lines, ReturnCallLine(0, Name("call", 5), <<>>))
    /\ out_bytes.ok
    /\ _parse_emc2(out_bytes.bytes).data = <<W(2, 14, 5), W(2, 12, 0), W(2, 8, 1)>>

-----------------------------------------------------------------------------
(* Scripted-call windows *)

\* nothing after the call, or an instruction no sugar consumes
CallTails == {<<>>, <<W(2, 13, 0)>>}

\* arguments, instr_2(2, 1), long jump to entry 0, optional cleanup, tail
InitFuncCall ==
    \E args \in SeqsUpTo({W(2, 4, 1), W(2, 5, 1)}, MaxPushes), cleanup \in Cleanups(MaxPushes),
       tail \in CallTails, eager \in BOOLEAN :
        StartFrom([order |-> <<0>>, strings |-> <<>>, text_present |-> FALSE,
                   data |-> args \o <<W(2, 2, 1), LJ(0)>> \o cleanup \o tail, cleanup |-> cleanup],
                  ContainerOf(<<0>>, <<>>, FALSE, args \o <<W(2, 2, 1), LJ(0)>> \o cleanup \o tail), eager)

SpecFuncCall == InitFuncCall /\ [][NextRoundTrip]_vars

\* a statement func_E(args)
IsFuncCall(ln) == ln.k = "sugar" /\ ln.v[1][1] = "func"

HasFuncCall(lines) == \E i \in 1 .. Len(lines) : IsFuncCall(lines[i])

\* C23: every word window that the decompiler folds into func_E(a1, ..., an),
\* the cleanup word instr_12(2, c) after the long jump included for every
\* c >= 0 and in particular c = 0, is reproduced word for word by lowering.
FuncCallReversible ==
    (phase = "compiled" /\ HasFuncCall(text.lines)) =>
        /\ out_bytes.ok
        /\ _parse_emc2(out_bytes.bytes).data = input.data

\* instr_2(2, 1), long jump, instr_12(2, 0) was printed as func_0() and
\* compiled without the cleanup word
FuncCallLosesCleanup ==
    /\ phase = "compiled"
    /\ input.data = <<W(2, 2, 1), LJ(0), W(2, 12, 0)>>
    /\ HasLine(text.lines, SugarLine(0, Name("func", 0), <<>>))
    /\ out_bytes.ok
    /\ _parse_emc2(out_bytes.bytes).data = <<W(2, 2, 1), LJ(0)>>

-----------------------------------------------------------------------------
(* Return windows *)

MaxOperands == 3

\* i8 pushes with opcode 4 and 3, the accumulator load, a unary and a binary operator
OperandWords == {W(2, 4, 5), W(2, 3, 5), W(2, 2, 0), W(2, 16, 0), W(2, 17, 8)}

\* what stands between the operands and the ret: nothing, the pop into the
\* accumulator, a cleanup, or both
Epilogues(max) ==
    {<<>>, <<W(2, 8, 0)>>} \cup {<<W(2, 12, n)>> : n \in {0, max}}
        \cup {<<W(2, 8, 0), W(2, 12, n)>> : n \in {0, max}}

\* operands, epilogue, ret
InitReturn ==
    \E operands \in SeqsUpTo(OperandWords, MaxOperands), epilogue \in Epilogues(MaxPushes),
       eager \in BOOLEAN :
        StartFrom([order |-> <<0>>, strings |-> <<>>, text_present |-> FALSE,
                   data |-> operands \o epilogue \o <<W(2, 8, 1)>>,
                   operands |-> operands, epilogue |-> epilogue],
                  ContainerOf(<<0>>, <<>>, FALSE, operands \o epilogue \o <<W(2, 8, 1)>>), eager)

SpecReturn == InitReturn /\ [][NextRoundTrip]_vars

IsReturnExpr(ln) == ln.k = "return" /\ ln.v[1] # AccToken
IsReturnAcc(ln) == ln.k = "return" /\ ln.v[1] = AccToken

\* the words that the claim gives statement i: an instruction is its word,
\* return <expr> is expr, instr_8(2, 0), optional instr_12(2, N), instr_8(2, 1)
\* and return acc is optional instr_12(2, N), instr_8(2, 1)
ReturnWords(lines, i) ==
    LET ln == lines[i]
        cleanup == IF i > 1 /\ IsLeave(lines[i - 1]) THEN <<W(2, 12, NumVal(lines[i - 1].v[1]))>> ELSE <<>>
    IN  IF IsReturnAcc(ln) THEN cleanup \o <<W(2, 8, 1)>>
        ELSE IF IsReturnExpr(ln) THEN LoweredWords(<<ln.v[1]>>).words \o <<W(2, 8, 0)>> \o cleanup \o <<W(2, 8, 1)>>
        ELSE IF ln.k = "instr" THEN <<W(NumVal(ln.v[2]), InstrId(ln.v[1]), NumVal(ln.v[3]))>>
        ELSE <<>>

\* some suffix of the operand words parses to exactly the one value expr, not bare acc
OneValueBefore(a, operands, expr) ==
    \E s \in 0 .. Len(operands) :
        With(StackExprs(a, s, Len(operands)), LAMBDA r :
            /\ r.ok
            /\ Len(r.stack) = 1
            /\ r.stack[1][1] # "acc"
            /\ render_expr(r.stack[1]) = expr)

\* C24: return <expr> is printed only when the words before instr_8(2, 0)
\* parse to exactly one value that is not bare acc; lowering return <expr>
\* gives expr, instr_8(2, 0), optional instr_12(2, N), instr_8(2, 1) and
\* lowering return acc gives only optional instr_12(2, N), instr_8(2, 1);
\* the compiled DATA has as many words as the original and the same epilogue
\* words, so return acc stands for the bare ret (and its cleanup) only and
\* acc-load, instr_8(2, 0), instr_8(2, 1) is not collapsed into it.
ReturnFolding ==
    phase = "compiled" =>
        With(_parse_emc2(out_bytes.bytes).data, LAMBDA words :
            /\ out_bytes.ok
            /\ words = Flatten([i \in 1 .. Len(text.lines) |-> ReturnWords(text.lines, i)])
            /\ Len(words) = Len(input.data)
            /\ SubSeq(words, Len(input.operands) + 1, Len(words)) = input.epilogue \o <<W(2, 8, 1)>>
            /\ \A i \in 1 .. Len(text.lines) :
                   /\ IsReturnExpr(text.lines[i]) =>
                          /\ input.epilogue # <<>>
                          /\ input.epilogue[1] = W(2, 8, 0)
                          /\ OneValueBefore(Analyze(form, TRUE, annotations_evaluated), input.operands,
                                            text.lines[i].v[1])
                   /\ (IsReturnAcc(text.lines[i]) /\ input.epilogue # <<>> /\ input.epilogue[1] = W(2, 8, 0)) =>
                          \E j \in 1 .. i - 1 : ReturnWords(text.lines, j) = <<W(2, 8, 0)>>)

\* acc-load, instr_8(2, 0), ret was printed as three statements and compiled to the same words
AccLoadNotCollapsed ==
    /\ phase = "compiled"
    /\ input.data = <<W(2, 2, 0), W(2, 8, 0), W(2, 8, 1)>>
    /\ \E i \in 1 .. Len(text.lines) - 2 :
           /\ text.lines[i] = InstrLine(0, InstrName(2), 2, Hex(0, 2))
           /\ text.lines[i + 1] = InstrLine(0, InstrName(8), 2, Hex(0, 2))
           /\ IsReturnAcc(text.lines[i + 2])
    /\ out_bytes.ok
    /\ _parse_emc2(out_bytes.bytes).data = input.data

-----------------------------------------------------------------------------
(* TEXT block decoding *)

MaxText == 5

\* NUL, offsets 2, 4 and 6, a letter, and a byte above 127
TextBytes == {0, 2, 4, 6, 65, 200}

InitText ==
    \E data \in SeqsUpTo(TextBytes, MaxText) :
        /\ phase = "block"
        /\ input = [data |-> data]
        /\ buf = data
        /\ form = Unset
        /\ text = Unset
        /\ out_bytes = Unset
        /\ text2 = Unset
        /\ annotations_evaluated = FALSE

\* form = _decode_text_block(buf)
DecodeText ==
    /\ phase = "block"
    /\ phase' = "decoded"
    /\ form' = _decode_text_block(buf)
    /\ UNCHANGED <<input, buf, text, out_bytes, text2, annotations_evaluated>>

\* out_bytes = _encode_text_block(form)
EncodeText ==
    /\ phase = "decoded"
    /\ form.ok
    /\ phase' = "encoded"
    /\ out_bytes' = _encode_text_block(form.strings)
    /\ UNCHANGED <<input, buf, form, text, text2, annotations_evaluated>>

NextText == DecodeText \/ EncodeText

SpecText == InitText /\ [][NextText]_vars

\* C25: every string that TEXT decoding returns is ASCII and contains no
\* NUL: a block with a NUL inside a string before its terminator, like one
\* with a non-ASCII byte, is rejected at decode time.
DecodedStringsClean ==
    (phase # "block" /\ form.ok) =>
        \A j \in 1 .. Len(form.strings) : IsAscii(form.strings[j]) /\ ~HasNul(form.strings[j])

\* the block 00 02 00 00 was decoded to one string that is a single NUL,
\* which the encoder then refused
InteriorNulDecoded ==
    /\ phase = "encoded"
    /\ input.data = <<0, 2, 0, 0>>
    /\ form.ok
    /\ form.strings = <<<<0>>>>
    /\ ~out_bytes.ok

-----------------------------------------------------------------------------
(* String literals *)

MaxQuoted == 3

\* the characters with an escape of their own, the two letters that name
\* escapes, x, a hexadecimal digit, and the ends of the printable range
QuoteBytes == {1, 9, 10, 13, 31, 32, 39, 92, 102, 110, 120, 126, 127}

\* short strings over QuoteBytes, and every byte 1..127 alone and after a backslash
QuotedStrings ==
    SeqsUpTo(QuoteBytes, MaxQuoted) \cup {<<c>> : c \in 1 .. 127} \cup {<<92, c>> : c \in 1 .. 127}

InitQuote ==
    \E s \in QuotedStrings :
        /\ phase = "string"
        /\ input = [s |-> s]
        /\ buf = <<>>
        /\ form = Unset
        /\ text = Unset
        /\ out_bytes = Unset
        /\ text2 = Unset
        /\ annotations_evaluated = FALSE

\* text = _quote_string(s), the characters between the quotes
QuoteString ==
    /\ phase = "string"
    /\ phase' = "quoted"
    /\ text' = _quote_string(input.s)
    /\ UNCHANGED <<input, buf, form, out_bytes, text2, annotations_evaluated>>

\* form = the value of the STRING token that the lexer reads from text
LexString ==
    /\ phase = "quoted"
    /\ phase' = "lexed"
    /\ form' = _read_single_quoted_string(text, <<>>)
    /\ UNCHANGED <<input, buf, text, out_bytes, text2, annotations_evaluated>>

NextQuote == QuoteString \/ LexString

SpecQuote == InitQuote /\ [][NextQuote]_vars

\* C26: for every string s over the bytes 1..127, lexing _quote_string(s)
\* does not raise and yields one STRING token whose value is s.
QuoteLexRoundTrip ==
    phase = "lexed" => (form.ok /\ form.s = input.s)

\* quote, backslash, 0x01 was written as \' \\ \x01 and read back
EscapesReadBack ==
    /\ phase = "lexed"
    /\ input.s = <<39, 92, 1>>
    /\ text = <<92, 39, 92, 92, 92, 120, 48, 49>>
    /\ form.ok
    /\ form.s = input.s

-----------------------------------------------------------------------------
(* Raw-mode round trip *)

MaxRaw == 3

\* a push16 prefix and a condition marker with low bits set, a push16
\* immediate, a long jump and an i8 push
RawWords == {W(1, 3, 9), 179, W(1, 15, 7), LJ(0), W(2, 4, 5)}

InitRaw ==
    \E data \in SeqsUpTo(RawWords, MaxRaw), eager \in BOOLEAN :
        StartFrom([order |-> <<0>>, strings |-> <<>>, text_present |-> FALSE, data |-> data],
                  ContainerOf(<<0>>, <<>>, FALSE, data), eager)

\* text = decompile(buf, call_sugar=False)
DecompileRaw ==
    /\ phase = "start"
    /\ phase' = "decompiled"
    /\ form' = _parse_emc2(buf)
    /\ text' = decompile(buf, FALSE, annotations_evaluated)
    /\ UNCHANGED <<input, buf, out_bytes, text2, annotations_evaluated>>

NextRaw == DecompileRaw \/ Compile

SpecRaw == InitRaw /\ [][NextRaw]_vars

\* C27: with call sugar disabled, compiling the decompiled text of an
\* accepted container gives back the container byte for byte; both words of
\* every two-word instruction are re-emitted unchanged.
RawRoundTrip ==
    phase = "compiled" => (out_bytes.ok /\ out_bytes.bytes = buf)

\* the push16 prefix 0x2309 came back as 0x2300
PushPrefixLowBitsLost ==
    /\ phase = "compiled"
    /\ input.data = <<W(1, 3, 9), 179>>
    /\ HasLine(text.lines, Push16Line(0, 179))
    /\ out_bytes.ok
    /\ _parse_emc2(out_bytes.bytes).data = <<W(1, 3, 0), 179>>

-----------------------------------------------------------------------------
(* Sugar folds next to push16 *)

MaxFold == 3

\* a push16 prefix, and the words the sugar folds look for: a native call, a
\* cleanup, the prologue and the long jump of a scripted call, an i8 push
OperandFoldWords == {W(1, 3, 0), W(2, 14, 5), W(2, 12, 1), W(2, 2, 1), LJ(0), W(2, 4, 5)}

InitOperandFold ==
    \E data \in SeqsUpTo(OperandFoldWords, MaxFold), eager \in BOOLEAN :
        StartFrom([order |-> <<0>>, strings |-> <<>>, text_present |-> FALSE, data |-> data],
                  ContainerOf(<<0>>, <<>>, FALSE, data), eager)

SpecOperandFold == InitOperandFold /\ [][NextRoundTrip]_vars

\* a statement call_ID(args) of a native call
IsNativeCall(ln) == ln.k = "sugar" /\ CallTarget(ln.v[1]) # -1

\* C28: no sugar fold takes an operand word for an instruction: the call
\* word call(2, ID) that a printed call_ID(args) stands for is at an executed
\* PC, never the immediate of a push16, so the words lowered from the text
\* are as many as the words consumed.
FoldsMatchExecutedWords ==
    /\ (phase = "decompiled" /\ text.ok) =>
           \A i \in 1 .. Len(text.lines) :
               IsNativeCall(text.lines[i]) =>
                   \E pc \in ExecutedPcs(input.data).executed_pcs :
                       At(input.data, pc) = W(2, 14, CallTarget(text.lines[i].v[1]))
    /\ phase = "compiled" =>
           (out_bytes.ok /\ Len(_parse_emc2(out_bytes.bytes).data) = Len(input.data))

\* push16 with the immediate 0x4e05, instr_12(2, 1) was printed as
\* call_5(u16(0x4e05)) and compiled to four words
ImmediateTakenAsCall ==
    /\ phase = "compiled"
    /\ input.data = <<W(1, 3, 0), W(2, 14, 5), W(2, 12, 1)>>
    /\ 1 \notin ExecutedPcs(input.data).executed_pcs
    /\ HasLine(text.lines, SugarLine(0, Name("call", 5), <<Ex("u16", <<Hex(W(2, 14, 5), 4)>>)>>))
    /\ out_bytes.ok
    /\ _parse_emc2(out_bytes.bytes).data = <<W(1, 3, 0), W(2, 14, 5), W(2, 14, 5), W(2, 12, 1)>>

-----------------------------------------------------------------------------
(* Instruction statements: the emitted word, decoded *)

\* jmp, push, a numbered instruction and the last instruction id
StatementIds == {0, 4, 12, 31}

\* the ends of the 8-bit range, and two targets that need 15 bits
StatementArgs(id, flags) == {0, 1, 255} \cup (IF id = 0 /\ flags = 4 THEN {256, 32767} ELSE {})

\* one statement NAME(flags, arg) that the lowerer accepts
InitStatement ==
    \E id \in StatementIds, flags \in 0 .. 7, eager \in BOOLEAN :
        \E arg \in StatementArgs(id, flags) :
            StartSource([id |-> id, flags |-> flags, arg |-> arg],
                        <<Line(0, "strings_empty", <<>>), Blank, Line(0, "globals", <<>>), Blank,
                          InstrLine(0, InstrName(id), flags, Hex(arg, IF arg > 255 THEN 4 ELSE 2))>>,
                        eager)

\* form = _decode_word of the one word of the compiled DATA
DecodeEmitted ==
    /\ phase = "compiled"
    /\ out_bytes.ok
    /\ phase' = "decoded"
    /\ form' = _decode_word(_parse_emc2(out_bytes.bytes).data[1])
    /\ UNCHANGED <<input, buf, text, out_bytes, text2, annotations_evaluated>>

NextStatement == CompileSource \/ DecodeEmitted

SpecStatement == InitStatement /\ [][NextStatement]_vars

\* C29: for every instruction statement the lowerer accepts (id 0..31,
\* flags 0..7, arg 0..255, or jmp with flags 4 and a 15-bit target),
\* decoding the emitted word returns the flags, the instruction id and the
\* arg that were written.
EmittedWordDecodesBack ==
    /\ phase = "compiled" => out_bytes.ok
    /\ phase = "decoded" =>
           /\ form.flags = input.flags
           /\ form.instr = input.id
           /\ form.arg = input.arg

\* push(4, 0x01) was emitted as 0x8401, which decodes as a long jump to 0x401
HighFlagsDecodeAsJump ==
    /\ phase = "decoded"
    /\ input = [id |-> 4, flags |-> 4, arg |-> 1]
    /\ _parse_emc2(out_bytes.bytes).data = <<33793>>
    /\ form = [flags |-> 4, instr |-> 0, arg |-> 1025, long |-> TRUE]

-----------------------------------------------------------------------------
(* The PC cursor of decompile, one loop iteration at a time *)

MaxCursor == 5

\* condition marker, push16 prefix, long jumps into a DATA of MaxCursor
\* words, a native call and ret
CursorWords == {W(1, 15, 0), W(1, 3, 0), LJ(3), LJ(5), W(2, 14, 5), W(2, 8, 1)}

\* an activation of a loop over [start, end): its cursor, and by what the
\* cursor was last moved
Frame(s, e) == [start |-> s, end |-> e, pc |-> s, by |-> "entry"]

\* text is the stack of activations, the running one last
InitCursor ==
    \E data \in SeqsUpTo(CursorWords, MaxCursor) :
        /\ phase = "discover"
        /\ input = [data |-> data, order |-> <<0>>, strings |-> <<>>]
        /\ buf = <<>>
        /\ form = [executed_pcs |-> {}, ifnot_operand_pcs |-> {}, embedded_jmp_targets |-> {}]
        /\ text = <<Frame(0, Len(data))>>
        /\ out_bytes = Unset
        /\ text2 = Unset
        /\ annotations_evaluated = FALSE

\* one iteration moved the cursor to pc and made the calls (in call order)
Moved(pc, by, calls) == [pc |-> pc, by |-> by, calls |-> calls]

\* one iteration of the loop of compute_hidden_pcs
HiddenIteration(a, pc, end_pc) ==
    IF _is_push16_at(a.data, pc) THEN Moved(pc + 2, "push16", <<>>)
    ELSE IF IsCondAt(a, pc)
         THEN With(StructCond(a, pc, end_pc), LAMBDA c :
                  IF ~c.ok THEN Moved(pc + 2, "marker", <<>>)
                  ELSE IF c.join_target # -1
                       THEN Moved(c.join_target, "if_else",
                                  <<Frame(c.then_start, c.last_then_pc), Frame(c.else_start, c.join_target)>>)
                       ELSE Moved(c.else_start, "if", <<Frame(c.then_start, c.else_start)>>))
         ELSE Moved(pc + 1, "instr", <<>>)

SugarNextStuck(a, pc, end_pc) == pc

\* the next PC that the first matching fold returns, or -1
SugarNext(a, pc, end_pc) ==
    IF a.call_sugar THEN TrySugars(a, [lines |-> <<>>, sup |-> {}, err |-> FALSE], 0, pc, end_pc).next ELSE -1

\* one iteration of the loop of emit_range
EmitIteration(a, pc, end_pc) ==
    With(SugarNext(a, pc, end_pc), LAMBDA next_pc :
        IF next_pc # -1 THEN Moved(next_pc, "sugar", <<>>)
        ELSE IF _is_push16_at(a.data, pc) \/ ~IsCondAt(a, pc) THEN HiddenIteration(a, pc, end_pc)
        ELSE With(StructCond(a, pc, end_pc), LAMBDA c :
                 IF c.ok THEN HiddenIteration(a, pc, end_pc) ELSE Moved(pc + 2, "marker", <<>>)))

\* the stack after the running activation made the iteration it: the
\* first call runs first
Advance(stack, it) ==
    LET n == Len(stack)
    IN  [stack EXCEPT ![n].pc = it.pc, ![n].by = it.by]
            \o [k \in 1 .. Len(it.calls) |-> it.calls[Len(it.calls) + 1 - k]]

Running == Top(text)

\* the loop of the executed-PC discovery, then the analysis it feeds
DiscoverStep ==
    /\ phase = "discover"
    /\ IF Running.pc < Len(input.data)
       THEN /\ phase' = phase
            /\ LET pc == Running.pc
                    acc1 == [form EXCEPT !.executed_pcs = @ \cup {pc}]
                    op == _decode_word(At(input.data, pc + 1))
                IN  IF _is_push16_at(input.data, pc)
                    THEN form' = acc1 /\ text' = Advance(text, Moved(pc + 2, "push16", <<>>))
                    ELSE IF IsCondMarker(input.data, pc)
                    THEN /\ form' = [acc1 EXCEPT !.ifnot_operand_pcs = @ \cup {pc + 1},
                                                  !.embedded_jmp_targets =
                                                      IF op.long \/ op.instr = 0 THEN @ \cup {op.arg} ELSE @]
                         /\ text' = Advance(text, Moved(pc + 2, "marker", <<>>))
                    ELSE form' = acc1 /\ text' = Advance(text, Moved(pc + 1, "instr", <<>>))
       ELSE /\ phase' = "hidden"
            /\ form' = Analyze(input, TRUE, FALSE)
            /\ text' = <<Frame(0, Len(input.data))>>
    /\ UNCHANGED <<input, buf, out_bytes, text2, annotations_evaluated>>

\* compute_hidden_pcs(0, len(data)): an iteration, or the return of an activation
HiddenStep ==
    /\ phase = "hidden"
    /\ IF Running.pc < Running.end
       THEN text' = Advance(text, HiddenIteration(form, Running.pc, Running.end)) /\ phase' = phase
       ELSE IF Len(text) > 1 THEN (text' = Pop(text) /\ phase' = phase)
       ELSE (text' = <<Frame(0, Len(input.data))>> /\ phase' = "emit")
    /\ UNCHANGED <<input, buf, form, out_bytes, text2, annotations_evaluated>>

\* emit_range(0, len(data)): an iteration, or the return of an activation
EmitStep ==
    /\ phase = "emit"
    /\ IF Running.pc < Running.end
       THEN text' = Advance(text, EmitIteration(form, Running.pc, Running.end)) /\ phase' = phase
       ELSE IF Len(text) > 1 THEN (text' = Pop(text) /\ phase' = phase)
       ELSE (text' = <<>> /\ phase' = "done")
    /\ UNCHANGED <<input, buf, form, out_bytes, text2, annotations_evaluated>>

NextCursor == DiscoverStep \/ HiddenStep \/ EmitStep

SpecCursor == InitCursor /\ [][NextCursor]_vars

\* what an activation still has to do: two for each word left, one to return
Weight(f) == IF f.pc < f.end THEN 2 * (f.end - f.pc) + 1 ELSE 1

RECURSIVE StackWeight(_)
StackWeight(stack) == IF stack = <<>> THEN 0 ELSE Weight(Head(stack)) + StackWeight(Tail(stack))

\* the loops still to run, then the work left in the running one
Rank ==
    (CASE phase = "discover" -> 3 [] phase = "hidden" -> 2 [] phase = "emit" -> 1 [] OTHER -> 0)
        * (2 * Len(input.data) + 2) + StackWeight(text)

\* an iteration: the cursor of the running activation grows, a fold leaves
\* it at most at the range end, and every call it makes is on a range
\* strictly inside the range of the caller, past the old cursor
CursorAdvances ==
    (phase' = phase /\ Len(text') >= Len(text)) =>
        LET n == Len(text)
            old == text[n]
            new == text'[n]
        IN  /\ new.pc > old.pc
            /\ new.by = "sugar" => new.pc <= old.end
            /\ \A k \in (n + 1) .. Len(text') :
                   /\ text'[k].start > old.pc
                   /\ text'[k].start <= text'[k].end
                   /\ text'[k].end <= old.end
                   /\ text'[k].pc = text'[k].start

\* C30: decompile terminates on every accepted container: in the
\* executed-PC discovery, in compute_hidden_pcs and in emit_range the PC
\* cursor strictly increases on every loop iteration, each fold returns a
\* next PC greater than the current one and at most the range end, and
\* every recursive call is on a sub-range strictly inside the current range.
\* Every step lowers the natural number Rank, so no run goes on for ever.
DecompileTerminates == [][CursorAdvances /\ Rank' < Rank /\ Rank' >= 0]_vars

\* emit_range runs on the else branch [3, 5) of marker, jump 3, jump 5, call, ret
ElseBranchRunning ==
    /\ phase = "emit"
    /\ input.data = <<W(1, 15, 0), LJ(3), LJ(5), W(2, 14, 5), W(2, 8, 1)>>
    /\ Len(text) = 2
    /\ text[1].pc = 5
    /\ text[1].by = "if_else"
    /\ Running = [start |-> 3, end |-> 5, pc |-> 5, by |-> "sugar"]

=============================================================================
